---- MODULE Spec2Model ----
(***************************************************************************)
(* Interaction-combinator net (ic_runtime.c) and its indexed enumerator    *)
(* (ic_search.c): the node arena, ic_net_connect, the redex queue, the     *)
(* rewrite rules and the gas-bounded work loop of ic_net_reduce.           *)
(*                                                                         *)
(* The ic_net_t struct is one record-valued variable `net`.  The circular  *)
(* redex buffer (redex_queue, redex_queue_start, redex_queue_size) is the  *)
(* sequence of its live entries, oldest first.  ic_net_reduce is split at  *)
(* its loop head: one step per iteration of the while loop; iter is the    *)
(* parity of the iterations made by the call in progress.                  *)
(* ic_search_factor is split the same way; `state` is its enumerator state *)
(* (ic_enum_state_t), `run` its locals and the progress reports it made.   *)
(***************************************************************************)
EXTENDS Integers, Sequences, FiniteSets, TLC

VARIABLES net, pc, ret, last, entry, calls, connects, iter, state, run

vars == <<net, pc, ret, last, entry, calls, connects, iter, state, run>>

(* ---------------------------- bounds ----------------------------------- *)

\* largest capacity handed to ic_net_create
MaxNodes == 4
\* largest gas_limit handed to ic_net_create
MaxGas == 2
\* number of new_node and build_net calls in one run
MaxCalls == 2
\* number of connect calls in one run
MaxConnects == 1
\* number of new_node calls in a run that only allocates
MaxAllocs == 6
\* number of nodes, and of connect calls, in a run that only connects
MaxLinkNodes == 3
MaxLinks == 3
\* number of nodes of a net prepared for the factor check
MaxFactorNodes == 3
\* the search driver stops taking iterations at this enumeration index
MaxSearchIndex == 24
\* largest index handed to ic_enum_build_net in a run that only enumerates
MaxEnumIndex == 60
\* number of ic_enum_build_net calls in such a run
MaxEnumCalls == 2
\* gas_limit of its net
EnumGas == 2
\* a search that follows the progress reports stops taking iterations at
\* this enumeration index
MaxProgressIndex == 1030
\* largest value written to factor_a or factor_b by hand
MaxFactor == 4
\* numbers to factor in the runs that exercise the factor check
FactorInputs == {2, 6}
\* capacity of the circular redex buffer; its #define is in ic_runtime.h, which
\* is not among the source files, so the model takes a capacity small enough
\* for a full queue to occur
MAX_REDEX_QUEUE == 3
\* largest index handed to ic_enum_build_net
MaxIndex == 5
\* the numbers to factor the driver stores in input_number
InputNumbers == {6}
\* bystander nodes next to the pair under rewrite in a prepared net
NumExtras == 2
\* largest number of free slots left in a prepared net
MaxFree == 4
\* largest number of disjoint delta-delta pairs in a prepared net
MaxPairs == 3
\* largest gas_limit of a prepared net
MaxGasR == 3

(* ---------------------------- types ------------------------------------ *)

IC_NODE_DELTA == "delta"
IC_NODE_GAMMA == "gamma"
IC_NODE_EPSILON == "epsilon"

ic_node_type_t == {IC_NODE_DELTA, IC_NODE_GAMMA, IC_NODE_EPSILON}

\* ic_port_t
Port(n, p) == [connected_node |-> n, connected_port |-> p]

Unconnected == Port(-1, -1)

\* a zeroed ic_node_t, as calloc leaves it
ZeroNode == [type |-> IC_NODE_DELTA,
             ports |-> [p \in 0..2 |-> Port(0, 0)],
             is_active |-> FALSE]

(* ---------------------------- graph store ------------------------------ *)

ic_net_create(max_nodes, gas_limit) ==
    [nodes |-> [i \in 0..(max_nodes - 1) |-> ZeroNode],
     max_nodes |-> max_nodes,
     used_nodes |-> 0,
     gas_limit |-> gas_limit,
     gas_used |-> 0,
     redex_queue |-> << >>,
     input_number |-> 0,
     factor_a |-> 0,
     factor_b |-> 0,
     factor_found |-> FALSE]

\* faulty variant: the capacity test lets one node too many through
NoFreeSlot_OffByOne(n) == n.used_nodes > n.max_nodes

\* the capacity test of ic_net_new_node
NoFreeSlot(n) == n.used_nodes >= n.max_nodes

\* the value ic_net_new_node returns
new_node_idx(n) ==
    IF NoFreeSlot(n) THEN -1 ELSE n.used_nodes

\* faulty variant: a retired slot is handed out again before a fresh one
ic_net_new_node_Recycle(n, type) ==
    IF \E i \in 0..(n.used_nodes - 1) : ~n.nodes[i].is_active
    THEN LET slot == CHOOSE i \in 0..(n.used_nodes - 1) : ~n.nodes[i].is_active
         IN [n EXCEPT !.nodes[slot] =
                         [type |-> type,
                          ports |-> [p \in 0..2 |-> Unconnected],
                          is_active |-> TRUE]]
    ELSE IF NoFreeSlot(n)
         THEN n
         ELSE [n EXCEPT !.used_nodes = n.used_nodes + 1,
                        !.nodes[n.used_nodes] =
                            [type |-> type,
                             ports |-> [p \in 0..2 |-> Unconnected],
                             is_active |-> TRUE]]

ic_net_new_node(n, type) ==
    IF NoFreeSlot(n)
    THEN n
    ELSE [n EXCEPT !.used_nodes = n.used_nodes + 1,
                   !.nodes[n.used_nodes] =
                       [type |-> type,
                        ports |-> [p \in 0..2 |-> Unconnected],
                        is_active |-> TRUE]]

ic_net_get_used_nodes(n) == n.used_nodes

\* the test both ic_net_add_redex and ic_net_get_next_redex make of a pair
PrincipalLinked(n, a, b) ==
    /\ n.nodes[a].ports[0].connected_node = b
    /\ n.nodes[a].ports[0].connected_port = 0
    /\ n.nodes[b].ports[0].connected_node = a
    /\ n.nodes[b].ports[0].connected_port = 0

\* faulty variant: the queue is not checked for room
ic_net_add_redex_NoLimit(n, node_a, node_b) ==
    IF ~n.nodes[node_a].is_active \/ ~n.nodes[node_b].is_active
    THEN n
    ELSE IF PrincipalLinked(n, node_a, node_b)
         THEN [n EXCEPT !.redex_queue = Append(@, <<node_a, node_b>>)]
         ELSE n

ic_net_add_redex(n, node_a, node_b) ==
    IF ~n.nodes[node_a].is_active \/ ~n.nodes[node_b].is_active
    THEN n
    ELSE IF PrincipalLinked(n, node_a, node_b)
         THEN IF Len(n.redex_queue) >= MAX_REDEX_QUEUE
              THEN n
              ELSE [n EXCEPT !.redex_queue = Append(@, <<node_a, node_b>>)]
         ELSE n

\* the queue after ic_net_get_next_redex
DequeueNet(n) ==
    IF Len(n.redex_queue) = 0
    THEN n
    ELSE [n EXCEPT !.redex_queue = Tail(@)]

\* faulty variant: the head of the queue is handed out without the validity
\* check
ic_net_get_next_redex_Unchecked(n) == Len(n.redex_queue) # 0

\* the boolean ic_net_get_next_redex returns
ic_net_get_next_redex(n) ==
    IF Len(n.redex_queue) = 0
    THEN FALSE
    ELSE LET node_a == Head(n.redex_queue)[1]
             node_b == Head(n.redex_queue)[2]
         IN ~(\/ ~n.nodes[node_a].is_active
              \/ ~n.nodes[node_b].is_active
              \/ n.nodes[node_a].ports[0].connected_node # node_b
              \/ n.nodes[node_a].ports[0].connected_port # 0
              \/ n.nodes[node_b].ports[0].connected_node # node_a
              \/ n.nodes[node_b].ports[0].connected_port # 0)

\* nodes[node].ports[port] := (-1, -1)
\* faulty variant: only the node half of the port record is cleared
ClearPort_NodeOnly(nodes, node, port) ==
    [nodes EXCEPT ![node].ports[port].connected_node = -1]

ClearPort(nodes, node, port) ==
    [nodes EXCEPT ![node].ports[port] = Unconnected]

\* faulty variant: the old peer of a reconnected port keeps its link
SeverOld_Kept(nodes, used, node, port) == nodes

\* faulty variant: the reconnected port is cleared, not its old peer
SeverOld_ClearsOwn(nodes, used, node, port) ==
    LET old_node == nodes[node].ports[port].connected_node
        old_port == nodes[node].ports[port].connected_port
    IN IF old_node # -1
          /\ old_node >= 0 /\ old_node < used
          /\ old_port >= 0 /\ old_port < 3
       THEN ClearPort(nodes, node, port)
       ELSE nodes

\* the "disconnect any existing connection" block of ic_net_connect
SeverOld(nodes, used, node, port) ==
    LET old_node == nodes[node].ports[port].connected_node
        old_port == nodes[node].ports[port].connected_port
    IN IF old_node # -1
          /\ old_node >= 0 /\ old_node < used
          /\ old_port >= 0 /\ old_port < 3
       THEN ClearPort(nodes, old_node, old_port)
       ELSE nodes

\* faulty variant: node indices are checked against the capacity, so an
\* index between used_nodes and max_nodes passes
InvalidEndpoints_Capacity(n, node_a, port_a, node_b, port_b) ==
    \/ node_a < 0 \/ node_a >= n.max_nodes
    \/ node_b < 0 \/ node_b >= n.max_nodes
    \/ port_a < 0 \/ port_a >= 3
    \/ port_b < 0 \/ port_b >= 3

\* the "validate indices" test of ic_net_connect
InvalidEndpoints(n, node_a, port_a, node_b, port_b) ==
    \/ node_a < 0 \/ node_a >= n.used_nodes
    \/ node_b < 0 \/ node_b >= n.used_nodes
    \/ port_a < 0 \/ port_a >= 3
    \/ port_b < 0 \/ port_b >= 3

\* faulty variant: only the first endpoint records the link
LinkPorts_OneWay(nodes, node_a, port_a, node_b, port_b) ==
    [nodes EXCEPT ![node_a].ports[port_a] = Port(node_b, port_b)]

\* the "connect the two ports" assignments of ic_net_connect
LinkPorts(nodes, node_a, port_a, node_b, port_b) ==
    LET n3 == [nodes EXCEPT ![node_a].ports[port_a] = Port(node_b, port_b)]
    IN [n3 EXCEPT ![node_b].ports[port_b] = Port(node_a, port_a)]

ic_net_connect(n, node_a, port_a, node_b, port_b) ==
    IF InvalidEndpoints(n, node_a, port_a, node_b, port_b)
    THEN n
    ELSE LET n1 == SeverOld(n.nodes, n.used_nodes, node_a, port_a)
             n2 == SeverOld(n1, n.used_nodes, node_b, port_b)
             n4 == LinkPorts(n2, node_a, port_a, node_b, port_b)
             linked == [n EXCEPT !.nodes = n4]
         IN IF port_a = 0 /\ port_b = 0
               /\ n4[node_a].is_active /\ n4[node_b].is_active
            THEN ic_net_add_redex(linked, node_a, node_b)
            ELSE linked

(* ---------------------------- rewrite rules ---------------------------- *)

\* one "if (conn_node >= 0) { clear the peer; clear the own port }" block
SeverAux(nodes, node, aux, conn) ==
    IF conn.connected_node >= 0
    THEN ClearPort(ClearPort(nodes, conn.connected_node, conn.connected_port),
                   node, aux)
    ELSE nodes

\* the disconnect phase shared by the three binary rules: both principal
\* ports, then the four auxiliary links in the order the code clears them
SeverPair(nodes, node1, node2, c11, c12, c21, c22) ==
    LET d0 == ClearPort(ClearPort(nodes, node1, 0), node2, 0)
        d1 == SeverAux(d0, node1, 1, c11)
        d2 == SeverAux(d1, node1, 2, c12)
        d3 == SeverAux(d2, node2, 1, c21)
    IN SeverAux(d3, node2, 2, c22)

\* "if (x_node >= 0 && y_node >= 0) ic_net_connect(net, x, y)"
ConnectIfBoth(n, x, y) ==
    IF x.connected_node >= 0 /\ y.connected_node >= 0
    THEN ic_net_connect(n, x.connected_node, x.connected_port,
                           y.connected_node, y.connected_port)
    ELSE n

\* "if (x_node >= 0) ic_net_connect(net, node, port, x)"
ConnectIfOne(n, node, port, x) ==
    IF x.connected_node >= 0
    THEN ic_net_connect(n, node, port, x.connected_node, x.connected_port)
    ELSE n

Retire(n, node1, node2) ==
    [n EXCEPT !.nodes = [@ EXCEPT ![node1].is_active = FALSE,
                                  ![node2].is_active = FALSE]]

\* faulty variant: the delta-delta rule wires aux1 to aux1 and aux2 to aux2
ic_apply_delta_delta_Straight(n, node1, node2) ==
    LET conn1_aux1 == n.nodes[node1].ports[1]
        conn1_aux2 == n.nodes[node1].ports[2]
        conn2_aux1 == n.nodes[node2].ports[1]
        conn2_aux2 == n.nodes[node2].ports[2]
        m0 == [n EXCEPT !.nodes = SeverPair(n.nodes, node1, node2,
                           conn1_aux1, conn1_aux2, conn2_aux1, conn2_aux2)]
        m1 == ConnectIfBoth(m0, conn1_aux1, conn2_aux1)
        m2 == ConnectIfBoth(m1, conn1_aux2, conn2_aux2)
    IN Retire(m2, node1, node2)

ic_apply_delta_delta(n, node1, node2) ==
    LET conn1_aux1 == n.nodes[node1].ports[1]
        conn1_aux2 == n.nodes[node1].ports[2]
        conn2_aux1 == n.nodes[node2].ports[1]
        conn2_aux2 == n.nodes[node2].ports[2]
        m0 == [n EXCEPT !.nodes = SeverPair(n.nodes, node1, node2,
                           conn1_aux1, conn1_aux2, conn2_aux1, conn2_aux2)]
        m1 == ConnectIfBoth(m0, conn1_aux1, conn2_aux2)
        m2 == ConnectIfBoth(m1, conn1_aux2, conn2_aux1)
    IN Retire(m2, node1, node2)

\* faulty variant: the gamma-gamma rule wires aux1 to aux2 and aux2 to aux1
ic_apply_gamma_gamma_Cross(n, node1, node2) ==
    LET conn1_aux1 == n.nodes[node1].ports[1]
        conn1_aux2 == n.nodes[node1].ports[2]
        conn2_aux1 == n.nodes[node2].ports[1]
        conn2_aux2 == n.nodes[node2].ports[2]
        m0 == [n EXCEPT !.nodes = SeverPair(n.nodes, node1, node2,
                           conn1_aux1, conn1_aux2, conn2_aux1, conn2_aux2)]
        m1 == ConnectIfBoth(m0, conn1_aux1, conn2_aux2)
        m2 == ConnectIfBoth(m1, conn1_aux2, conn2_aux1)
    IN Retire(m2, node1, node2)

ic_apply_gamma_gamma(n, node1, node2) ==
    LET conn1_aux1 == n.nodes[node1].ports[1]
        conn1_aux2 == n.nodes[node1].ports[2]
        conn2_aux1 == n.nodes[node2].ports[1]
        conn2_aux2 == n.nodes[node2].ports[2]
        m0 == [n EXCEPT !.nodes = SeverPair(n.nodes, node1, node2,
                           conn1_aux1, conn1_aux2, conn2_aux1, conn2_aux2)]
        m1 == ConnectIfBoth(m0, conn1_aux1, conn2_aux1)
        m2 == ConnectIfBoth(m1, conn1_aux2, conn2_aux2)
    IN Retire(m2, node1, node2)

\* the out-of-space branch of ic_apply_delta_gamma: whichever of the two
\* allocations succeeded is marked inactive and the rule returns
DeltaGammaAbort(a2, new_delta, new_gamma) ==
    LET x1 == IF new_delta # -1
              THEN [a2 EXCEPT !.nodes[new_delta].is_active = FALSE]
              ELSE a2
    IN IF new_gamma # -1
       THEN [x1 EXCEPT !.nodes[new_gamma].is_active = FALSE]
       ELSE x1

\* faulty variant: the new delta takes both peers of the old delta, the new
\* gamma both peers of the old gamma
ic_apply_delta_gamma_Swapped(n, delta_node, gamma_node) ==
    LET conn_delta_aux1 == n.nodes[delta_node].ports[1]
        conn_delta_aux2 == n.nodes[delta_node].ports[2]
        conn_gamma_aux1 == n.nodes[gamma_node].ports[1]
        conn_gamma_aux2 == n.nodes[gamma_node].ports[2]
        new_delta == new_node_idx(n)
        a1 == ic_net_new_node(n, IC_NODE_DELTA)
        new_gamma == new_node_idx(a1)
        a2 == ic_net_new_node(a1, IC_NODE_GAMMA)
    IN IF new_delta = -1 \/ new_gamma = -1
       THEN DeltaGammaAbort(a2, new_delta, new_gamma)
       ELSE LET m0 == [a2 EXCEPT !.nodes =
                          SeverPair(a2.nodes, delta_node, gamma_node,
                                    conn_delta_aux1, conn_delta_aux2,
                                    conn_gamma_aux1, conn_gamma_aux2)]
                m1 == ic_net_connect(m0, new_delta, 0, new_gamma, 0)
                m2 == ConnectIfOne(m1, new_delta, 1, conn_delta_aux1)
                m3 == ConnectIfOne(m2, new_delta, 2, conn_delta_aux2)
                m4 == ConnectIfOne(m3, new_gamma, 1, conn_gamma_aux1)
                m5 == ConnectIfOne(m4, new_gamma, 2, conn_gamma_aux2)
            IN Retire(m5, delta_node, gamma_node)

\* faulty variant: the principal ports of the two new nodes are not linked
ic_apply_delta_gamma_NoPair(n, delta_node, gamma_node) ==
    LET conn_delta_aux1 == n.nodes[delta_node].ports[1]
        conn_delta_aux2 == n.nodes[delta_node].ports[2]
        conn_gamma_aux1 == n.nodes[gamma_node].ports[1]
        conn_gamma_aux2 == n.nodes[gamma_node].ports[2]
        new_delta == new_node_idx(n)
        a1 == ic_net_new_node(n, IC_NODE_DELTA)
        new_gamma == new_node_idx(a1)
        a2 == ic_net_new_node(a1, IC_NODE_GAMMA)
    IN IF new_delta = -1 \/ new_gamma = -1
       THEN DeltaGammaAbort(a2, new_delta, new_gamma)
       ELSE LET m0 == [a2 EXCEPT !.nodes =
                          SeverPair(a2.nodes, delta_node, gamma_node,
                                    conn_delta_aux1, conn_delta_aux2,
                                    conn_gamma_aux1, conn_gamma_aux2)]
                m1 == m0
                m2 == ConnectIfOne(m1, new_delta, 1, conn_delta_aux1)
                m3 == ConnectIfOne(m2, new_delta, 2, conn_gamma_aux1)
                m4 == ConnectIfOne(m3, new_gamma, 1, conn_delta_aux2)
                m5 == ConnectIfOne(m4, new_gamma, 2, conn_gamma_aux2)
            IN Retire(m5, delta_node, gamma_node)

ic_apply_delta_gamma(n, delta_node, gamma_node) ==
    LET conn_delta_aux1 == n.nodes[delta_node].ports[1]
        conn_delta_aux2 == n.nodes[delta_node].ports[2]
        conn_gamma_aux1 == n.nodes[gamma_node].ports[1]
        conn_gamma_aux2 == n.nodes[gamma_node].ports[2]
        new_delta == new_node_idx(n)
        a1 == ic_net_new_node(n, IC_NODE_DELTA)
        new_gamma == new_node_idx(a1)
        a2 == ic_net_new_node(a1, IC_NODE_GAMMA)
    IN IF new_delta = -1 \/ new_gamma = -1
       THEN DeltaGammaAbort(a2, new_delta, new_gamma)
       ELSE LET m0 == [a2 EXCEPT !.nodes =
                          SeverPair(a2.nodes, delta_node, gamma_node,
                                    conn_delta_aux1, conn_delta_aux2,
                                    conn_gamma_aux1, conn_gamma_aux2)]
                m1 == ic_net_connect(m0, new_delta, 0, new_gamma, 0)
                m2 == ConnectIfOne(m1, new_delta, 1, conn_delta_aux1)
                m3 == ConnectIfOne(m2, new_delta, 2, conn_gamma_aux1)
                m4 == ConnectIfOne(m3, new_gamma, 1, conn_delta_aux2)
                m5 == ConnectIfOne(m4, new_gamma, 2, conn_gamma_aux2)
            IN Retire(m5, delta_node, gamma_node)

\* faulty variant: the erasure retires the node the epsilon met as well
ic_apply_epsilon_any_Both(n, epsilon_node, other_node) ==
    [n EXCEPT !.nodes[epsilon_node].is_active = FALSE,
              !.nodes[other_node].is_active = FALSE]

ic_apply_epsilon_any(n, epsilon_node, other_node) ==
    [n EXCEPT !.nodes[epsilon_node].is_active = FALSE]

\* faulty variant: a delta-gamma rewrite that ran out of slots reports false
ic_apply_rewrite_ret_FalseOnAbort(n, node_a, node_b) ==
    IF \/ node_a < 0 \/ node_a >= n.used_nodes
       \/ node_b < 0 \/ node_b >= n.used_nodes
    THEN FALSE
    ELSE LET type_a == n.nodes[node_a].type
             type_b == n.nodes[node_b].type
         IN \/ type_a = IC_NODE_EPSILON \/ type_b = IC_NODE_EPSILON
            \/ type_a = type_b
            \/ n.used_nodes + 2 <= n.max_nodes

\* the boolean ic_apply_rewrite returns
ic_apply_rewrite_ret(n, node_a, node_b) ==
    IF \/ node_a < 0 \/ node_a >= n.used_nodes
       \/ node_b < 0 \/ node_b >= n.used_nodes
    THEN FALSE
    ELSE LET type_a == n.nodes[node_a].type
             type_b == n.nodes[node_b].type
         IN \/ type_a = IC_NODE_EPSILON \/ type_b = IC_NODE_EPSILON
            \/ type_a = IC_NODE_DELTA /\ type_b = IC_NODE_DELTA
            \/ type_a = IC_NODE_GAMMA /\ type_b = IC_NODE_GAMMA
            \/ type_a = IC_NODE_DELTA /\ type_b = IC_NODE_GAMMA
            \/ type_a = IC_NODE_GAMMA /\ type_b = IC_NODE_DELTA

\* the net ic_apply_rewrite leaves
ic_apply_rewrite(n, node_a, node_b) ==
    IF \/ node_a < 0 \/ node_a >= n.used_nodes
       \/ node_b < 0 \/ node_b >= n.used_nodes
    THEN n
    ELSE LET type_a == n.nodes[node_a].type
             type_b == n.nodes[node_b].type
         IN IF type_a = IC_NODE_EPSILON \/ type_b = IC_NODE_EPSILON
            THEN ic_apply_epsilon_any(n,
                     IF type_a = IC_NODE_EPSILON THEN node_a ELSE node_b,
                     IF type_a = IC_NODE_EPSILON THEN node_b ELSE node_a)
            ELSE IF type_a = IC_NODE_DELTA /\ type_b = IC_NODE_DELTA
            THEN ic_apply_delta_delta(n, node_a, node_b)
            ELSE IF type_a = IC_NODE_GAMMA /\ type_b = IC_NODE_GAMMA
            THEN ic_apply_gamma_gamma(n, node_a, node_b)
            ELSE IF \/ type_a = IC_NODE_DELTA /\ type_b = IC_NODE_GAMMA
                    \/ type_a = IC_NODE_GAMMA /\ type_b = IC_NODE_DELTA
            THEN ic_apply_delta_gamma(n,
                     IF type_a = IC_NODE_DELTA THEN node_a ELSE node_b,
                     IF type_a = IC_NODE_GAMMA THEN node_a ELSE node_b)
            ELSE n

\* which rule ic_apply_rewrite dispatches to
RuleOf(n, node_a, node_b) ==
    LET type_a == n.nodes[node_a].type
        type_b == n.nodes[node_b].type
    IN IF type_a = IC_NODE_EPSILON \/ type_b = IC_NODE_EPSILON
       THEN "epsilon"
       ELSE IF type_a = type_b
            THEN (IF type_a = IC_NODE_DELTA THEN "delta_delta"
                                            ELSE "gamma_gamma")
            ELSE "delta_gamma"

(* ---------------------------- reduction -------------------------------- *)

\* the body of the scan loop, from node i upwards
RECURSIVE EnqueueActivePairs(_, _)
EnqueueActivePairs(n, i) ==
    IF i >= n.used_nodes
    THEN n
    ELSE IF ~n.nodes[i].is_active
         THEN EnqueueActivePairs(n, i + 1)
         ELSE LET conn_node == n.nodes[i].ports[0].connected_node
                  conn_port == n.nodes[i].ports[0].connected_port
              IN IF conn_node > i /\ conn_port = 0
                    /\ n.nodes[conn_node].is_active
                 THEN EnqueueActivePairs(ic_net_add_redex(n, i, conn_node),
                                         i + 1)
                 ELSE EnqueueActivePairs(n, i + 1)

ic_net_scan_for_redexes(n) ==
    EnqueueActivePairs([n EXCEPT !.redex_queue = << >>], 0)

RECURSIVE CountActive(_, _, _)
CountActive(n, type, i) ==
    IF i >= n.used_nodes
    THEN 0
    ELSE (IF n.nodes[i].is_active /\ n.nodes[i].type = type THEN 1 ELSE 0)
         + CountActive(n, type, i + 1)

\* "factor = i + 1" for the last active node of the type, 0 when none
RECURSIVE FactorOf(_, _, _)
FactorOf(n, type, i) ==
    IF i < 0
    THEN 0
    ELSE IF n.nodes[i].is_active /\ n.nodes[i].type = type
         THEN i + 1
         ELSE FactorOf(n, type, i - 1)

\* the "check for factorization before returning" block of ic_net_reduce
FactorCheck(n) ==
    IF n.input_number > 0
       /\ CountActive(n, IC_NODE_DELTA, 0) = 1
       /\ CountActive(n, IC_NODE_GAMMA, 0) = 1
    THEN LET factor_a == FactorOf(n, IC_NODE_DELTA, n.used_nodes - 1)
             factor_b == FactorOf(n, IC_NODE_GAMMA, n.used_nodes - 1)
         IN IF \/ n.input_number = 6 /\ factor_a = 1 /\ factor_b = 3
               \/ factor_a * factor_b = n.input_number
            THEN [n EXCEPT !.factor_a = factor_a,
                           !.factor_b = factor_b,
                           !.factor_found = TRUE]
            ELSE n
    ELSE n

\* faulty variant: the comparison of the return statement is off by one
ReduceResult_OffByOne(n) == IF n.gas_used <= n.gas_limit THEN 0 ELSE 1

\* the return statement of ic_net_reduce
ReduceResult(n) == IF n.gas_used < n.gas_limit THEN 0 ELSE 1

\* faulty variant: the rewrite is applied but no gas is counted
RewriteIteration_NoGas(n) ==
    LET node_a == Head(n.redex_queue)[1]
        node_b == Head(n.redex_queue)[2]
        d == DequeueNet(n)
    IN IF ic_apply_rewrite_ret(d, node_a, node_b)
       THEN EnqueueActivePairs(ic_apply_rewrite(d, node_a, node_b), 0)
       ELSE d

\* one iteration that dequeued a valid redex: rewrite, count gas, re-enqueue
RewriteIteration(n) ==
    LET node_a == Head(n.redex_queue)[1]
        node_b == Head(n.redex_queue)[2]
        d == DequeueNet(n)
    IN IF ic_apply_rewrite_ret(d, node_a, node_b)
       THEN LET r == ic_apply_rewrite(d, node_a, node_b)
            IN EnqueueActivePairs([r EXCEPT !.gas_used = r.gas_used + 1], 0)
       ELSE d

\* faulty variant: the product is compared with the net's own input_number,
\* not with the argument
ic_net_has_valid_factor_OwnInput(n, N) ==
    n.factor_found /\ n.factor_a * n.factor_b = n.input_number

ic_net_has_valid_factor(n, N) ==
    n.factor_found /\ n.factor_a * n.factor_b = N

(* ---------------------------- enumerator ------------------------------- *)

\* the ic_enum_state_t that ic_enum_init leaves; progress_cb is FALSE for
\* NULL and TRUE for a registered callback
ic_enum_init(max_nodes) ==
    [max_nodes |-> max_nodes, current_index |-> 0, progress_cb |-> FALSE]

\* ic_enum_set_progress_callback(state, callback), callback not NULL
ic_enum_set_progress_callback(st) == [st EXCEPT !.progress_cb = TRUE]

Min(S) == CHOOSE x \in S : \A y \in S : x <= y

\* the ports q of node m that are still unconnected
FreePorts(n, m) == {q \in 0..2 : n.nodes[m].ports[q].connected_node = -1}

\* the nodes other than `self`, below num_nodes, that have a free port
FreeNodes(n, self, num_nodes) ==
    {m \in 0..(num_nodes - 1) : m # self /\ FreePorts(n, m) # {}}

\* faulty variant: gas_used survives the reset
ResetNet_KeepsGas(n) ==
    [n EXCEPT !.nodes = [i \in DOMAIN n.nodes |->
                            IF i < n.used_nodes
                            THEN [n.nodes[i] EXCEPT !.is_active = FALSE]
                            ELSE n.nodes[i]],
              !.used_nodes = 0,
              !.factor_found = FALSE]

\* faulty variant: the reset clears input_number as ic_net_create does
ResetNet_ClearsInput(n) ==
    [n EXCEPT !.nodes = [i \in DOMAIN n.nodes |->
                            IF i < n.used_nodes
                            THEN [n.nodes[i] EXCEPT !.is_active = FALSE]
                            ELSE n.nodes[i]],
              !.used_nodes = 0,
              !.gas_used = 0,
              !.factor_found = FALSE,
              !.input_number = 0]

\* faulty variant: factor_found survives the reset
ResetNet_KeepsFound(n) ==
    [n EXCEPT !.nodes = [i \in DOMAIN n.nodes |->
                            IF i < n.used_nodes
                            THEN [n.nodes[i] EXCEPT !.is_active = FALSE]
                            ELSE n.nodes[i]],
              !.used_nodes = 0,
              !.gas_used = 0]

\* the "reset the net" block of ic_enum_build_net
ResetNet(n) ==
    [n EXCEPT !.nodes = [i \in DOMAIN n.nodes |->
                            IF i < n.used_nodes
                            THEN [n.nodes[i] EXCEPT !.is_active = FALSE]
                            ELSE n.nodes[i]],
              !.used_nodes = 0,
              !.gas_used = 0,
              !.factor_found = FALSE]

\* the type ic_enum_build_net gives node number k
EnumNodeType(k) ==
    IF k % 5 = 0 THEN IC_NODE_EPSILON
    ELSE IF k % 2 = 0 THEN IC_NODE_DELTA
    ELSE IC_NODE_GAMMA

\* "2. create nodes": stops at the first failed allocation
RECURSIVE CreateNodes(_, _, _)
CreateNodes(n, k, num_nodes) ==
    IF k >= num_nodes
    THEN [net |-> n, ok |-> TRUE]
    ELSE IF new_node_idx(n) < 0
         THEN [net |-> n, ok |-> FALSE]
         ELSE CreateNodes(ic_net_new_node(n, EnumNodeType(k)), k + 1, num_nodes)

\* "3. connect ports": k = 3*n + p walks the (node, port) pairs in loop order
RECURSIVE WirePorts(_, _, _, _)
WirePorts(n, remaining_index, k, num_nodes) ==
    IF k >= 3 * num_nodes
    THEN n
    ELSE LET node == k \div 3
             p == k % 3
         IN IF n.nodes[node].ports[p].connected_node # -1
            THEN WirePorts(n, remaining_index, k + 1, num_nodes)
            ELSE LET dest_node0 == (node + 1 + (remaining_index % num_nodes))
                                       % num_nodes
                     rem1 == remaining_index \div num_nodes
                     dest_port0 == rem1 % 3
                     rem2 == rem1 \div 3
                     taken == n.nodes[dest_node0].ports[dest_port0]
                                  .connected_node # -1
                     onDest == FreePorts(n, dest_node0)
                     others == FreeNodes(n, node, num_nodes)
                     found == ~taken \/ onDest # {} \/ others # {}
                     dest_node == IF ~taken \/ onDest # {} THEN dest_node0
                                  ELSE IF others # {} THEN Min(others)
                                  ELSE dest_node0
                     dest_port == IF ~taken THEN dest_port0
                                  ELSE IF onDest # {} THEN Min(onDest)
                                  ELSE IF others # {}
                                       THEN Min(FreePorts(n, Min(others)))
                                  ELSE dest_port0
                 IN IF ~found
                    THEN WirePorts(n, rem2, k + 1, num_nodes)
                    ELSE IF node = dest_node /\ p = 0 /\ dest_port = 0
                    THEN WirePorts(n, rem2, k + 1, num_nodes)
                    ELSE WirePorts(ic_net_connect(n, node, p,
                                                  dest_node, dest_port),
                                   rem2, k + 1, num_nodes)

\* "ensure all ports are connected": fails at the first port left without
\* a free partner on another node
RECURSIVE CompletePorts(_, _, _)
CompletePorts(n, k, num_nodes) ==
    IF k >= 3 * num_nodes
    THEN [net |-> n, ok |-> TRUE]
    ELSE LET node == k \div 3
             p == k % 3
             others == FreeNodes(n, node, num_nodes)
         IN IF n.nodes[node].ports[p].connected_node # -1
            THEN CompletePorts(n, k + 1, num_nodes)
            ELSE IF others = {}
            THEN [net |-> n, ok |-> FALSE]
            ELSE CompletePorts(
                     ic_net_connect(n, node, p, Min(others),
                                    Min(FreePorts(n, Min(others)))),
                     k + 1, num_nodes)

\* the "simple validity check" of ic_enum_build_net
has_active_pair(n, num_nodes) ==
    \E i \in 0..(num_nodes - 1) :
        LET conn_node == n.nodes[i].ports[0].connected_node
        IN conn_node >= 0 /\ n.nodes[conn_node].ports[0].connected_node = i

\* ic_enum_build_net(state, index, net): the net it leaves and its result.
\* state->max_nodes - 3 is size_t arithmetic: below 3 it wraps to a modulus
\* larger than any index, so index % m = index and index / m = 0.
\* "num_nodes = 3 + (index % (state->max_nodes - 3))"
NumNodes(state_max_nodes, index) ==
    IF state_max_nodes < 3
    THEN 3 + index
    ELSE 3 + (index % (state_max_nodes - 3))

\* faulty variant: a port left without a partner is let through
CompletionFailed_Ignored(done) == FALSE

\* "couldn't connect - invalid net"
CompletionFailed(done) == ~done.ok

ic_enum_build_net(state_max_nodes, index, n) ==
    LET num_nodes == NumNodes(state_max_nodes, index)
        remaining_index == IF state_max_nodes < 3
                           THEN 0
                           ELSE index \div (state_max_nodes - 3)
        created == CreateNodes(ResetNet(n), 0, num_nodes)
    IN IF ~created.ok
       THEN [net |-> created.net, result |-> -1]
       ELSE LET wired == WirePorts(created.net, remaining_index, 0, num_nodes)
                done == CompletePorts(wired, 0, num_nodes)
            IN IF CompletionFailed(done)
               THEN [net |-> done.net, result |-> -1]
               ELSE IF ~has_active_pair(done.net, num_nodes)
               THEN [net |-> done.net, result |-> -1]
               ELSE [net |-> done.net, result |-> 0]

(* ---------------------------- search driver ---------------------------- *)

\* faulty variant: gas_used is not reset on entry
ReduceEntry_KeepsGas(n) == ic_net_scan_for_redexes(n)

\* ic_net_reduce up to its loop: "net->gas_used = 0", the initial scan
ReduceEntry(n) == ic_net_scan_for_redexes([n EXCEPT !.gas_used = 0])

\* ic_net_reduce as one call: the work loop from its head to the return
RECURSIVE ReduceLoop(_)
ReduceLoop(n) ==
    IF ~(n.gas_used < n.gas_limit)
    THEN FactorCheck(n)
    ELSE IF ic_net_get_next_redex(n)
         THEN ReduceLoop(RewriteIteration(n))
         ELSE LET s == ic_net_scan_for_redexes(DequeueNet(n))
              IN IF Len(s.redex_queue) = 0
                 THEN FactorCheck(s)
                 ELSE ReduceLoop(s)

ic_net_reduce(n) == ReduceLoop(ReduceEntry(n))

\* the attempt limit of ic_enum_next
max_attempts == 1000

\* the while loop of ic_enum_next from attempt number `attempts` up to, not
\* including, attempt number `stop`: build at current_index, advance; result
\* 1 is the return after a successful build, 0 the loop still running
RECURSIVE EnumAttempts(_, _, _, _)

\* the loop body once ic_enum_build_net has answered b
EnumAttempt(st, b, attempts, stop) ==
    IF b.result = 0
    THEN [net |-> b.net,
          state |-> [st EXCEPT !.current_index = st.current_index + 1],
          result |-> 1]
    ELSE EnumAttempts([st EXCEPT !.current_index = st.current_index + 1],
                      b.net, attempts + 1, stop)

EnumAttempts(st, n, attempts, stop) ==
    IF ~(attempts < stop)
    THEN [net |-> n, state |-> st, result |-> 0]
    ELSE EnumAttempt(st, ic_enum_build_net(st.max_nodes, st.current_index, n),
                     attempts, stop)

\* attempts evaluated per stretch of the loop
EnumStretch == 25

\* the whole loop, "while (attempts < max_attempts)", a stretch at a time;
\* falling out of it is the return 0
RECURSIVE EnumNextLoop(_, _, _)

EnumNextStretch(e, stop) ==
    IF e.result = 1 THEN e ELSE EnumNextLoop(e.state, e.net, stop)

EnumStretchEnd(attempts) ==
    IF attempts + EnumStretch < max_attempts
    THEN attempts + EnumStretch
    ELSE max_attempts

EnumNextLoop(st, n, attempts) ==
    IF ~(attempts < max_attempts)
    THEN [net |-> n, state |-> st, result |-> 0]
    ELSE EnumNextStretch(EnumAttempts(st, n, attempts,
                                      EnumStretchEnd(attempts)),
                         EnumStretchEnd(attempts))

ic_enum_next(st, n) == EnumNextLoop(st, n, 0)

\* "const size_t progress_chunk = 1000"
progress_chunk == 1000

\* the locals and the history of one ic_search_factor call: the index the
\* enumerator stood at on entry, current_chunk, and the invocations of the
\* progress callback so far, each <<current_index, found_solution>>
NewRun(st) ==
    [start |-> st.current_index, current_chunk |-> 0, invoked |-> << >>]

\* before any call of ic_search_factor
NoRun == [start |-> 0, current_chunk |-> 0, invoked |-> << >>]

\* "report progress with solution"
ReportFound(st, r) ==
    IF st.progress_cb
    THEN [r EXCEPT !.invoked = Append(@, <<st.current_index - 1, TRUE>>)]
    ELSE r

\* faulty variant: the periodic report passes found_solution = true
ReportPeriodic_AsFound(st, r) ==
    IF st.progress_cb /\ st.current_index \div progress_chunk > r.current_chunk
    THEN [r EXCEPT !.current_chunk = st.current_index \div progress_chunk,
                   !.invoked = Append(@, <<st.current_index - 1, TRUE>>)]
    ELSE r

\* "report progress periodically"
ReportPeriodic(st, r) ==
    IF st.progress_cb /\ st.current_index \div progress_chunk > r.current_chunk
    THEN [r EXCEPT !.current_chunk = st.current_index \div progress_chunk,
                   !.invoked = Append(@, <<st.current_index - 1, FALSE>>)]
    ELSE r

\* faulty variant: the index after the one that was built is reported
SolutionIndex_NoStepBack(st) == st.current_index

\* "solution_index = state->current_index - 1"
SolutionIndex(st) == st.current_index - 1

(* ---------------------------- the API as a state machine --------------- *)

NoNet == << >>

\* ic_net_free: the nodes and the net are released, no net is left
ic_net_free(n) == NoNet

\* the record of the step just taken, together with the net it started from:
\* the construction, an API call, or a step of ic_net_reduce with the step
\* before it
Started(op) == [op |-> op, args |-> << >>, pre |-> NoNet, prev |-> "none"]

Call(op, args) == [op |-> op, args |-> args, pre |-> net, prev |-> "none"]

Step(op, args) == [op |-> op, args |-> args, pre |-> net, prev |-> last.op]

\* after ic_net_create(max_nodes, gas_limit) and the caller's assignment of
\* input_number
Init ==
    /\ \E max_nodes \in 1..MaxNodes, gas_limit \in 0..MaxGas,
          N \in InputNumbers :
           net = [ic_net_create(max_nodes, gas_limit)
                     EXCEPT !.input_number = N]
    /\ pc = "idle"
    /\ ret = 0
    /\ last = Started("create")
    /\ entry = NoNet
    /\ calls = 0
    /\ connects = 0
    /\ iter = 0
    /\ state = ic_enum_init(net.max_nodes)
    /\ run = NoRun

\* one ic_net_new_node call, the run's budget of calls given
NewNodeWithin(type, budget) ==
    /\ pc = "idle"
    /\ calls < budget
    /\ net' = ic_net_new_node(net, type)
    /\ ret' = new_node_idx(net)
    /\ last' = Call("new_node", <<type>>)
    /\ calls' = calls + 1
    /\ UNCHANGED <<pc, connects, iter>>
    /\ UNCHANGED <<state, run>>
    /\ entry' = NoNet

NewNode(type) == NewNodeWithin(type, MaxCalls)

\* argument tuples with one argument just outside its range
InvalidConnectArgs ==
    {<<x, 0, 0, 0>> : x \in {-1, net.used_nodes}}
    \cup {<<0, 0, x, 0>> : x \in {-1, net.used_nodes}}
    \cup {<<0, q, 0, 0>> : q \in {-1, 3}}
    \cup {<<0, 0, 0, q>> : q \in {-1, 3}}

ConnectArgsValid(n, a) ==
    /\ a[1] >= 0 /\ a[1] < n.used_nodes
    /\ a[3] >= 0 /\ a[3] < n.used_nodes
    /\ a[2] >= 0 /\ a[2] < 3
    /\ a[4] >= 0 /\ a[4] < 3

\* one ic_net_connect call, the run's budget of calls given
ConnectWithin(node_a, port_a, node_b, port_b, budget) ==
    /\ pc = "idle"
    /\ connects < budget
    /\ net' = ic_net_connect(net, node_a, port_a, node_b, port_b)
    /\ ret' = 0
    /\ last' = IF ConnectArgsValid(net, <<node_a, port_a, node_b, port_b>>)
               THEN Call("connect", <<node_a, port_a, node_b, port_b>>)
               ELSE Call("connect_invalid",
                         <<node_a, port_a, node_b, port_b>>)
    /\ connects' = connects + 1
    /\ UNCHANGED <<pc, calls, iter>>
    /\ UNCHANGED <<state, run>>
    /\ entry' = NoNet

Connect(node_a, port_a, node_b, port_b) ==
    ConnectWithin(node_a, port_a, node_b, port_b, MaxConnects)

\* ic_enum_build_net with the enumerator's max_nodes equal to the net's
\* capacity, as ic_search_factor and the tests set it up; capacity 3 divides
\* by zero and is not called
BuildNet(index) ==
    /\ pc = "idle"
    /\ calls < MaxCalls
    /\ net.max_nodes # 3
    /\ LET b == ic_enum_build_net(net.max_nodes, index, net)
       IN /\ net' = b.net
          /\ ret' = b.result
    /\ last' = Call("build_net", <<index>>)
    /\ calls' = calls + 1
    /\ UNCHANGED <<pc, connects, iter>>
    /\ UNCHANGED <<state, run>>
    /\ entry' = NoNet

\* faulty variant: the loop condition admits one iteration too many
GasLeft_OffByOne(n) == n.gas_used <= n.gas_limit

\* the condition of the work loop
GasLeft(n) == n.gas_used < n.gas_limit

\* ic_net_reduce up to the first evaluation of the loop condition
ReduceBegin ==
    /\ pc = "idle"
    /\ net' = ReduceEntry(net)
    /\ pc' = "loop"
    /\ last' = Step("reduce_begin", << >>)
    /\ UNCHANGED <<ret, calls, connects>>
    /\ iter' = 0
    /\ UNCHANGED <<state, run>>
    /\ entry' = net

\* an iteration whose dequeue succeeded
ReduceRewrite ==
    /\ pc = "loop"
    /\ GasLeft(net)
    /\ ic_net_get_next_redex(net)
    /\ net' = RewriteIteration(net)
    /\ last' = Step("rewrite", Head(net.redex_queue))
    /\ UNCHANGED <<pc, ret, entry, calls, connects>>
    /\ iter' = 1 - iter
    /\ UNCHANGED <<state, run>>

\* an iteration whose dequeue failed (queue empty or head stale): re-scan;
\* with redexes found the loop continues, otherwise break, factor check, return
ReduceDequeueFailed ==
    /\ pc = "loop"
    /\ GasLeft(net)
    /\ ~ic_net_get_next_redex(net)
    /\ LET s == ic_net_scan_for_redexes(DequeueNet(net))
       IN IF Len(s.redex_queue) = 0
          THEN /\ net' = FactorCheck(s)
               /\ ret' = ReduceResult(s)
               /\ pc' = "idle"
               /\ last' = Step("reduce_break", << >>)
          ELSE /\ net' = s
               /\ last' = Step("rescan", << >>)
               /\ UNCHANGED <<pc, ret>>
    /\ UNCHANGED <<entry, calls, connects>>
    /\ iter' = 1 - iter
    /\ UNCHANGED <<state, run>>

\* the loop condition fails: factor check, return
ReduceGasOut ==
    /\ pc = "loop"
    /\ ~GasLeft(net)
    /\ net' = FactorCheck(net)
    /\ ret' = ReduceResult(net)
    /\ pc' = "idle"
    /\ last' = Step("reduce_gas_out", << >>)
    /\ UNCHANGED <<entry, calls, connects>>
    /\ iter' = 1 - iter
    /\ UNCHANGED <<state, run>>

\* ic_net_has_valid_factor(net, N): a read of the net, the answer in ret
HasValidFactor(N) ==
    /\ pc = "idle"
    /\ ret' = IF ic_net_has_valid_factor(net, N) THEN 1 ELSE 0
    /\ last' = Step("has_valid_factor", <<N>>)
    /\ UNCHANGED <<net, pc, entry, calls, connects, iter>>
    /\ UNCHANGED <<state, run>>

\* test_factorization's direct write "net->factor_a = v"
SetFactorA(v) ==
    /\ pc = "idle"
    /\ net' = [net EXCEPT !.factor_a = v]
    /\ last' = Step("set_factor_a", <<v>>)
    /\ UNCHANGED <<pc, ret, entry, calls, connects, iter>>
    /\ UNCHANGED <<state, run>>

\* ic_search_factor up to its loop: the guard on N, the driver's own net
SearchBegin(N, max_nodes, gas_limit) ==
    /\ pc = "idle"
    /\ IF N <= 1
       THEN /\ ret' = -1
            /\ last' = Step("search_return", <<N, max_nodes, gas_limit>>)
            /\ UNCHANGED <<net, pc, entry>>
       ELSE /\ net' = [ic_net_create(max_nodes, gas_limit)
                          EXCEPT !.input_number = N]
            /\ entry' = net'
            /\ pc' = "search"
            /\ last' = Step("search_begin", <<N, max_nodes, gas_limit>>)
            /\ UNCHANGED ret
    /\ run' = NewRun(state)
    /\ UNCHANGED <<calls, connects, iter, state>>

\* ic_enum_set_progress_callback, as main calls it before the search
SetProgressCallback ==
    /\ pc = "idle"
    /\ ~state.progress_cb
    /\ state' = ic_enum_set_progress_callback(state)
    /\ last' = Step("set_progress_callback", << >>)
    /\ UNCHANGED <<net, pc, ret, entry, calls, connects, iter, run>>

\* the driver's loop body after a successful ic_enum_next, r the net as
\* ic_net_reduce left it; on the way out the driver frees its net, and entry
\* keeps the net as it was handed to ic_net_free
SearchReduced(r, st, N) ==
    IF ic_net_has_valid_factor(r, N)
    THEN /\ ret' = SolutionIndex(st)
         /\ run' = ReportFound(st, run)
         /\ net' = ic_net_free(r)
         /\ entry' = r
         /\ pc' = "idle"
         /\ last' = Step("search_return", last.args)
    ELSE /\ run' = ReportPeriodic(st, run)
         /\ net' = r
         /\ last' = Step("search_iteration", last.args)
         /\ UNCHANGED <<pc, ret, entry>>

\* the driver's loop body, e the answer of ic_enum_next
SearchEnumerated(e, N) ==
    /\ state' = e.state
    /\ IF e.result = 0
       THEN /\ net' = ic_net_free(e.net)
            /\ entry' = e.net
            /\ ret' = -1
            /\ pc' = "idle"
            /\ last' = Step("search_return", last.args)
            /\ UNCHANGED run
       ELSE SearchReduced(ic_net_reduce(e.net), e.state, N)

\* one iteration of the driver's loop: ic_enum_next, ic_net_reduce,
\* ic_net_has_valid_factor; the function returns, after ic_net_free, when
\* the enumeration is exhausted or a net passes
SearchIterationWithin(bound) ==
    /\ pc = "search"
    /\ state.current_index < bound
    /\ SearchEnumerated(ic_enum_next(state, net), entry.input_number)
    /\ UNCHANGED <<calls, connects, iter>>

SearchIteration == SearchIterationWithin(MaxSearchIndex)

ReduceStep == ReduceRewrite \/ ReduceDequeueFailed \/ ReduceGasOut

Next ==
    \/ \E type \in ic_node_type_t : NewNode(type)
    \/ \E a \in 0..(net.used_nodes - 1), b \in 0..(net.used_nodes - 1),
          pa \in 0..2, pb \in 0..2 : Connect(a, pa, b, pb)
    \/ \E x \in InvalidConnectArgs : Connect(x[1], x[2], x[3], x[4])
    \/ \E index \in 0..MaxIndex : BuildNet(index)
    \/ ReduceBegin
    \/ ReduceRewrite
    \/ ReduceDequeueFailed
    \/ ReduceGasOut

Spec == Init /\ [][Next]_vars

\* test_node_allocation: a fresh net on which only ic_net_new_node is called,
\* past its capacity
NextAlloc == \E type \in ic_node_type_t : NewNodeWithin(type, MaxAllocs)

SpecAlloc == Init /\ [][NextAlloc]_vars

(* ---------------------------- prepared nets ---------------------------- *)
(* Nets set up the way main_test.c sets them up: ic_net_create, a run of   *)
(* ic_net_new_node calls, a run of ic_net_connect calls.                   *)

RECURSIVE RunNewNodes(_, _)
RunNewNodes(n, types) ==
    IF types = << >>
    THEN n
    ELSE RunNewNodes(ic_net_new_node(n, Head(types)), Tail(types))

RECURSIVE RunConnects(_, _)
RunConnects(n, cs) ==
    IF cs = << >>
    THEN n
    ELSE RunConnects(ic_net_connect(n, Head(cs)[1], Head(cs)[2],
                                       Head(cs)[3], Head(cs)[4]),
                     Tail(cs))

Prepare(max_nodes, gas_limit, N, types, cs) ==
    RunConnects(RunNewNodes([ic_net_create(max_nodes, gas_limit)
                                EXCEPT !.input_number = N], types), cs)

\* type of bystander node k (k = 2, 3, ...)
ExtraType(k) ==
    IF k % 3 = 2 THEN IC_NODE_DELTA
    ELSE IF k % 3 = 0 THEN IC_NODE_GAMMA
    ELSE IC_NODE_EPSILON

ExtraTypes == [k \in 1..NumExtras |-> ExtraType(k + 1)]

NoTarget == <<-1, -1>>

\* what an auxiliary port of the pair (0, 1) may be connected to: nothing,
\* any auxiliary port of the pair (itself included), any port of a bystander
AuxTargets ==
    {NoTarget}
    \cup ({0, 1} \X {1, 2})
    \cup ((2..(NumExtras + 1)) \X (0..2))

AuxPorts == <<<<0, 1>>, <<0, 2>>, <<1, 1>>, <<1, 2>>>>

RECURSIVE AuxConnects(_, _)
AuxConnects(choice, i) ==
    IF i > 4
    THEN << >>
    ELSE IF choice[i] = NoTarget
         THEN AuxConnects(choice, i + 1)
         ELSE <<<<AuxPorts[i][1], AuxPorts[i][2], choice[i][1], choice[i][2]>>>>
              \o AuxConnects(choice, i + 1)

\* a principal-linked pair of any two types with every choice of auxiliary
\* wiring, two slots free
PairNets ==
    {Prepare(NumExtras + 4, MaxGasR, N, <<t0, t1>> \o ExtraTypes,
             <<<<0, 0, 1, 0>>>> \o AuxConnects(choice, 1)) :
        t0 \in ic_node_type_t, t1 \in ic_node_type_t,
        choice \in [1..4 -> AuxTargets], N \in InputNumbers}

\* test_delta_gamma_reduction with 0..MaxFree free slots, both node orders,
\* auxiliaries linked as in the test or left unconnected
CapacityNets ==
    {Prepare(2 + free, gas_limit, N, types, cs) :
        free \in 0..MaxFree, gas_limit \in 0..MaxGasR, N \in InputNumbers,
        types \in {<<IC_NODE_DELTA, IC_NODE_GAMMA>>,
                   <<IC_NODE_GAMMA, IC_NODE_DELTA>>},
        cs \in {<<<<0, 0, 1, 0>>>>,
                <<<<0, 1, 1, 1>>, <<0, 2, 1, 2>>, <<0, 0, 1, 0>>>>}}

\* test_gas_limit: k pairs of delta nodes (2i, 2i+1), principal ports linked,
\* auxiliaries looped (aux1 to aux2 of the same node) or left unconnected
RECURSIVE PairsConnects(_, _)
PairsConnects(looped, i) ==
    IF i > Len(looped)
    THEN << >>
    ELSE LET d1 == 2 * (i - 1)
             d2 == 2 * (i - 1) + 1
         IN <<<<d1, 0, d2, 0>>>>
            \o (IF looped[i] THEN <<<<d1, 1, d1, 2>>, <<d2, 1, d2, 2>>>>
                             ELSE << >>)
            \o PairsConnects(looped, i + 1)

GasNets ==
    UNION {{Prepare(2 * k, gas_limit, N, [i \in 1..(2 * k) |-> IC_NODE_DELTA],
                    PairsConnects(looped, 1)) :
               gas_limit \in 0..MaxGasR, N \in InputNumbers,
               looped \in [1..k -> BOOLEAN]} : k \in 1..MaxPairs}

\* test_connections: 1..MaxLinkNodes fresh nodes (delta, gamma, epsilon, ..)
\* and one slot to spare, nothing linked yet
LinkNets ==
    {Prepare(k + 1, MaxGas, N, [i \in 1..k |-> ExtraType(i + 1)], << >>) :
        k \in 1..MaxLinkNodes, N \in InputNumbers}

InitConnect ==
    /\ net \in LinkNets
    /\ pc = "idle"
    /\ ret = 0
    /\ last = Started("setup")
    /\ entry = NoNet
    /\ calls = 0
    /\ connects = 0
    /\ iter = 0
    /\ state = ic_enum_init(net.max_nodes)
    /\ run = NoRun

\* only ic_net_connect is called, with valid and with invalid arguments
NextConnect ==
    \/ \E a \in 0..(net.used_nodes - 1), b \in 0..(net.used_nodes - 1),
          pa \in 0..2, pb \in 0..2 : ConnectWithin(a, pa, b, pb, MaxLinks)
    \/ \E x \in InvalidConnectArgs :
          ConnectWithin(x[1], x[2], x[3], x[4], MaxLinks)

SpecConnect == InitConnect /\ [][NextConnect]_vars

\* nets for the factor check: 2..MaxFactorNodes nodes of any types, nodes 0
\* and 1 linked principal to principal or nothing linked, no or two slots
\* to spare
FactorNets ==
    UNION {{Prepare(k + free, gas_limit, N, types, cs) :
               free \in {0, 2}, gas_limit \in 0..MaxGas, N \in FactorInputs,
               types \in [1..k -> ic_node_type_t],
               cs \in {<< >>, <<<<0, 0, 1, 0>>>>}} : k \in 2..MaxFactorNodes}

InitFactor ==
    /\ net \in FactorNets
    /\ pc = "idle"
    /\ ret = 0
    /\ last = Started("setup")
    /\ entry = NoNet
    /\ calls = 0
    /\ connects = 0
    /\ iter = 0
    /\ state = ic_enum_init(net.max_nodes)
    /\ run = NoRun

\* ic_net_reduce and ic_net_has_valid_factor in any order, as often as wanted
NextFactor ==
    \/ ReduceBegin
    \/ ReduceRewrite
    \/ ReduceDequeueFailed
    \/ ReduceGasOut
    \/ \E N \in FactorInputs : HasValidFactor(N)

SpecFactor == InitFactor /\ [][NextFactor]_vars

\* test_factorization: a fresh net whose input_number, factor_a, factor_b
\* and factor_found are set by hand, then queried, factor_a rewritten in
\* between
InitValid ==
    /\ \E N \in FactorInputs, a \in 0..MaxFactor, b \in 0..MaxFactor,
          found \in BOOLEAN :
           net = [ic_net_create(MaxNodes, MaxGas)
                     EXCEPT !.input_number = N, !.factor_a = a,
                            !.factor_b = b, !.factor_found = found]
    /\ pc = "idle"
    /\ ret = 0
    /\ last = Started("setup")
    /\ entry = NoNet
    /\ calls = 0
    /\ connects = 0
    /\ iter = 0
    /\ state = ic_enum_init(net.max_nodes)
    /\ run = NoRun

NextValid ==
    \/ \E N \in FactorInputs : HasValidFactor(N)
    \/ \E v \in 0..MaxFactor : SetFactorA(v)

SpecValid == InitValid /\ [][NextValid]_vars

\* enumerator capacities handed to ic_enum_init (3 divides by zero in
\* ic_enum_build_net and is not called), and the arguments of the driver
SearchStateNodes == {2, 4, 5}
SearchInputs == {1, 2, 6}
SearchCaps == {2, 4, 5}

\* main: the enumerator state is initialised, the driver makes its own net
InitSearch ==
    /\ \E max_nodes \in SearchStateNodes : state = ic_enum_init(max_nodes)
    /\ run = NoRun
    /\ net = NoNet
    /\ pc = "idle"
    /\ ret = 0
    /\ last = Started("setup")
    /\ entry = NoNet
    /\ calls = 0
    /\ connects = 0
    /\ iter = 0

\* ic_search_factor, called again after it returned with the enumerator
\* state where the last call left it
NextSearch ==
    \/ \E N \in SearchInputs, max_nodes \in SearchCaps,
          gas_limit \in 0..MaxGas : SearchBegin(N, max_nodes, gas_limit)
    \/ SearchIteration

SpecSearch == InitSearch /\ [][NextSearch]_vars

\* test_enumeration: one enumerator state and one net, ic_enum_build_net
\* called for several indices on whatever the call before left in the net,
\* each successful build reduced as the driver does.  A setup is
\* <<enumerator max_nodes, net capacity>>.
EnumSetups == {<<5, 5>>, <<13, 13>>, <<14, 14>>, <<13, 5>>}

InitEnum ==
    /\ \E s \in EnumSetups :
           /\ state = ic_enum_init(s[1])
           /\ net = [ic_net_create(s[2], EnumGas) EXCEPT !.input_number = 6]
    /\ run = NoRun
    /\ pc = "idle"
    /\ ret = 0
    /\ last = Started("create")
    /\ entry = NoNet
    /\ calls = 0
    /\ connects = 0
    /\ iter = 0

\* ic_enum_build_net(state, index, net)
EnumBuild(index) ==
    /\ pc = "idle"
    /\ calls < MaxEnumCalls
    /\ LET b == ic_enum_build_net(state.max_nodes, index, net)
       IN /\ net' = b.net
          /\ ret' = b.result
    /\ last' = Call("enum_build", <<index>>)
    /\ calls' = calls + 1
    /\ entry' = NoNet
    /\ UNCHANGED <<pc, connects, iter, state, run>>

\* ic_net_reduce on the net a successful build left, as one call
EnumReduce ==
    /\ pc = "idle"
    /\ last.op = "enum_build"
    /\ ret = 0
    /\ net' = ic_net_reduce(net)
    /\ ret' = ReduceResult(ic_net_reduce(net))
    /\ last' = Call("enum_reduce", << >>)
    /\ entry' = NoNet
    /\ UNCHANGED <<pc, calls, connects, iter, state, run>>

\* ic_enum_next(state, net), as test_enumeration calls it
EnumNext ==
    /\ pc = "idle"
    /\ calls < MaxEnumCalls
    /\ net' = ic_enum_next(state, net).net
    /\ state' = ic_enum_next(state, net).state
    /\ ret' = ic_enum_next(state, net).result
    /\ last' = Call("enum_next", <<state.current_index>>)
    /\ calls' = calls + 1
    /\ entry' = NoNet
    /\ UNCHANGED <<pc, connects, iter, run>>

NextEnum ==
    \/ \E index \in 0..MaxEnumIndex : EnumBuild(index)
    \/ EnumReduce
    \/ EnumNext

SpecEnum == InitEnum /\ [][NextEnum]_vars

\* main with its progress callback: ic_enum_init, optionally
\* ic_enum_set_progress_callback, then ic_search_factor, called again after
\* it returned; the runs are followed across the first progress chunk
ProgressStateNodes == {5}
ProgressInputs == {2, 6}
ProgressCaps == {2, 5}
ProgressGas == {2}

InitProgress ==
    /\ \E max_nodes \in ProgressStateNodes : state = ic_enum_init(max_nodes)
    /\ run = NoRun
    /\ net = NoNet
    /\ pc = "idle"
    /\ ret = 0
    /\ last = Started("setup")
    /\ entry = NoNet
    /\ calls = 0
    /\ connects = 0
    /\ iter = 0

NextProgress ==
    \/ SetProgressCallback
    \/ \E N \in ProgressInputs, max_nodes \in ProgressCaps,
          gas_limit \in ProgressGas : SearchBegin(N, max_nodes, gas_limit)
    \/ SearchIterationWithin(MaxProgressIndex)

SpecProgress == InitProgress /\ [][NextProgress]_vars

\* test_gas_limit with one pair more than the redex queue holds and gas for
\* every pair and one iteration to spare; all nodes of one type, auxiliaries
\* looped or left unconnected
OverflowNets ==
    {Prepare(2 * (MAX_REDEX_QUEUE + 1), MAX_REDEX_QUEUE + 2, N,
             [i \in 1..(2 * (MAX_REDEX_QUEUE + 1)) |-> type],
             PairsConnects([i \in 1..(MAX_REDEX_QUEUE + 1) |-> looped], 1)) :
        type \in ic_node_type_t, looped \in BOOLEAN, N \in InputNumbers}

InitPrepared ==
    /\ net \in PairNets \cup CapacityNets \cup GasNets \cup OverflowNets
    /\ pc = "idle"
    /\ ret = 0
    /\ last = Started("setup")
    /\ entry = NoNet
    /\ calls = 0
    /\ connects = 0
    /\ iter = 0
    /\ state = ic_enum_init(net.max_nodes)
    /\ run = NoRun

NextReduce ==
    \/ ReduceBegin
    \/ ReduceRewrite
    \/ ReduceDequeueFailed
    \/ ReduceGasOut

\* ic_net_reduce, called any number of times on a prepared net
SpecReduce == InitPrepared /\ [][NextReduce]_vars

\* one more evaluation of the loop condition: every step of the work loop,
\* and no other step, flips iter
LoopIteration == pc = "loop" /\ iter' = 1 - iter

\* ic_net_reduce is an ordinary blocking call: once entered, the work loop
\* keeps taking iterations on the caller's thread until it returns
FairSpecReduce ==
    InitPrepared /\ [][NextReduce]_vars /\ WF_iter(LoopIteration)

(* ---------------------------- structural predicates -------------------- *)

Nodes(n) == 0..(n.used_nodes - 1)

Bidirectional(n) ==
    \A a \in Nodes(n), p \in 0..2 :
        LET b == n.nodes[a].ports[p].connected_node
            q == n.nodes[a].ports[p].connected_port
        IN b # -1 =>
              /\ b \in Nodes(n) /\ q \in 0..2
              /\ n.nodes[b].ports[q] = Port(a, p)

\* invariant 4 for two distinct nodes
ActivePair(n, a, b) ==
    /\ a # b
    /\ n.nodes[a].is_active /\ n.nodes[b].is_active
    /\ PrincipalLinked(n, a, b)

HasActivePair(n) == \E a \in Nodes(n), b \in Nodes(n) : ActivePair(n, a, b)

TypeOK ==
    /\ pc \in {"idle", "loop"}
    /\ net.used_nodes \in 0..net.max_nodes
    /\ Len(net.redex_queue) <= MAX_REDEX_QUEUE

(* ---------------------------- history helpers -------------------------- *)

Returned == pc = "idle" /\ last.op \in {"reduce_break", "reduce_gas_out"}

Rewrote == last.op = "rewrite"

\* the pair handed to ic_apply_rewrite by the rewrite just made
RwA == last.args[1]
RwB == last.args[2]
RwRule == RuleOf(last.pre, RwA, RwB)

\* the delta-gamma rule found fewer than two free slots
AllocFailed(n) == n.used_nodes + 2 > n.max_nodes

Linked(c) == c.connected_node >= 0

\* ports x and y of net n point at each other
Mutual(n, x, y) ==
    /\ n.nodes[x.connected_node].ports[x.connected_port] = y
    /\ n.nodes[y.connected_node].ports[y.connected_port] = x

(* ---------------------------- C1 --------------------------------------- *)

\* C1: in every state reached by new_node, connect, build_net and reduce
\* calls, between the rewrites of a reduction as well, every link of a node
\* in [0, used) is answered by its peer: a.ports[p] = (b, q) implies
\* b.ports[q] = (a, p).
C1_Bidirectional == Bidirectional(net)

C1_Witness ==
    /\ Rewrote /\ RwRule = "delta_gamma" /\ ~AllocFailed(last.pre)
    /\ connects >= 1
    /\ \E a \in Nodes(net), p \in 0..2 : Linked(net.nodes[a].ports[p])

(* ---------------------------- C2 --------------------------------------- *)

\* a rewrite step that was not cut short by a failed allocation
AppliedRewrite ==
    /\ ReduceRewrite
    /\ LET a == Head(net.redex_queue)[1]
           b == Head(net.redex_queue)[2]
       IN RuleOf(net, a, b) = "delta_gamma" => ~AllocFailed(net)

\* C2: inside ic_net_reduce gas_used never decreases, grows by at most one
\* per iteration and by exactly one in an iteration that applies a rewrite,
\* and stays at or below gas_limit from entry to exit.
C2_GasMonotone ==
    [][/\ pc = "loop" =>
            /\ net'.gas_used >= net.gas_used
            /\ net'.gas_used <= net.gas_used + 1
            /\ AppliedRewrite => net'.gas_used = net.gas_used + 1
            /\ ~ReduceRewrite => net'.gas_used = net.gas_used
       /\ (pc = "loop" \/ pc' = "loop") => net'.gas_used <= net'.gas_limit
      ]_vars

C2_Witness ==
    /\ Rewrote /\ net.gas_used = 2 /\ net.gas_used = net.gas_limit
    /\ RwRule = "delta_delta"

(* ---------------------------- C3 --------------------------------------- *)

\* C3: ic_net_reduce terminates: a started reduction returns; an iteration
\* whose dequeue failed and whose re-scan found redexes is followed by an
\* iteration that rewrites and consumes one gas; and the call returns either
\* with an empty queue after a re-scan or with gas_used = gas_limit.
C3_Terminates ==
    /\ (pc = "loop") ~> (pc = "idle")
    /\ [][last.op = "rescan" =>
             /\ ReduceRewrite
             /\ net'.gas_used = net.gas_used + 1]_vars
    /\ [](Returned =>
             \/ last.op = "reduce_break" /\ net.redex_queue = << >>
             \/ net.gas_used = net.gas_limit)

C3_Witness ==
    /\ Rewrote /\ last.prev = "rescan"
    /\ net.gas_used = last.pre.gas_used + 1

(* ---------------------------- C4 --------------------------------------- *)

\* C4: when ic_net_reduce returns 0 the net holds no active pair.
C4_FinishedNoActivePair ==
    (Returned /\ ret = 0) => ~HasActivePair(net)

C4_Witness ==
    /\ Returned /\ ret = 0 /\ net.gas_used >= 1
    /\ \E a \in Nodes(net) : net.nodes[a].is_active

(* ---------------------------- C5 --------------------------------------- *)

\* C5 (as claimed): whenever no active pair remains when ic_net_reduce
\* returns, the return value is 0.
C5_AsClaimed ==
    (Returned /\ ~HasActivePair(net)) => ret = 0

(* ---------------------------- C6 --------------------------------------- *)

\* number of node pairs (2i, 2i+1) of a net
DeltaPairs(n) == n.used_nodes \div 2

\* both auxiliary ports unlinked, or aux1 looped to aux2 of the same node
SelfLoopedOrUnlinked(n, a) ==
    \/ /\ n.nodes[a].ports[1] = Unconnected
       /\ n.nodes[a].ports[2] = Unconnected
    \/ /\ n.nodes[a].ports[1] = Port(a, 2)
       /\ n.nodes[a].ports[2] = Port(a, 1)

\* the net of test_gas_limit: only active delta nodes, node 2i principal-linked
\* to node 2i+1, nothing else linked but the self-loops
IsDeltaPairsNet(n) ==
    /\ n.used_nodes > 0 /\ n.used_nodes % 2 = 0
    /\ \A a \in Nodes(n) :
          /\ n.nodes[a].is_active
          /\ n.nodes[a].type = IC_NODE_DELTA
          /\ SelfLoopedOrUnlinked(n, a)
    /\ \A i \in 0..(DeltaPairs(n) - 1) : PrincipalLinked(n, 2 * i, 2 * i + 1)

RetiredPair(n, i) ==
    ~n.nodes[2 * i].is_active /\ ~n.nodes[2 * i + 1].is_active

\* C6: ic_net_reduce called on k disjoint principal-linked delta-delta pairs
\* with 0 < gas_limit < k returns 1 with gas_used = gas_limit, exactly
\* gas_limit pairs retired and every other pair still an active pair.
C6_GasHalting ==
    (/\ Returned
     /\ IsDeltaPairsNet(entry)
     /\ 0 < entry.gas_limit /\ entry.gas_limit < DeltaPairs(entry))
    => /\ ret = 1
       /\ net.gas_used = entry.gas_limit
       /\ Cardinality({i \in 0..(DeltaPairs(entry) - 1) : RetiredPair(net, i)})
             = entry.gas_limit
       /\ \A i \in 0..(DeltaPairs(entry) - 1) :
             ~RetiredPair(net, i) => ActivePair(net, 2 * i, 2 * i + 1)

\* as in test_gas_limit: three pairs, every auxiliary self-looped, gas 2
C6_Witness ==
    /\ Returned
    /\ IsDeltaPairsNet(entry)
    /\ DeltaPairs(entry) = 3 /\ entry.gas_limit = 2
    /\ \A a \in Nodes(entry) : entry.nodes[a].ports[1] = Port(a, 2)
    /\ ret = 1 /\ net.gas_used = 2

(* ---------------------------- C7, C8 ----------------------------------- *)

\* the auxiliary links of the rewritten pair as they were before the rewrite
PreAux(node, port) == last.pre.nodes[node].ports[port]

\* a port of a node other than the rewritten pair
OnThirdNode(c) == Linked(c) /\ c.connected_node \notin {RwA, RwB}

\* C7: after the delta-delta rule on the active pair (a, b), whatever the
\* auxiliary wiring was, a and b are inactive, and where both snapshotted
\* peers exist the former peer of a.aux1 and the former peer of b.aux2 are
\* linked to each other, and so are the former peers of a.aux2 and b.aux1.
C7_DeltaDeltaCross ==
    (Rewrote /\ RwRule = "delta_delta")
    => /\ ~net.nodes[RwA].is_active /\ ~net.nodes[RwB].is_active
       /\ (Linked(PreAux(RwA, 1)) /\ Linked(PreAux(RwB, 2)))
             => Mutual(net, PreAux(RwA, 1), PreAux(RwB, 2))
       /\ (Linked(PreAux(RwA, 2)) /\ Linked(PreAux(RwB, 1)))
             => Mutual(net, PreAux(RwA, 2), PreAux(RwB, 1))

\* a delta-delta rewrite whose four auxiliary peers were on third nodes
C7_Witness ==
    /\ Rewrote /\ RwRule = "delta_delta"
    /\ \A x \in {RwA, RwB}, p \in 1..2 : OnThirdNode(PreAux(x, p))
    /\ Mutual(net, PreAux(RwA, 1), PreAux(RwB, 2))
    /\ ~net.nodes[RwA].is_active /\ ~net.nodes[RwB].is_active

\* C8: after the gamma-gamma rule on a pair whose four auxiliary ports were
\* linked to ports X, Y (of the first) and Z, W (of the second) on other
\* nodes, X and Z are linked to each other, Y and W are linked to each other,
\* and both gamma nodes are inactive.
C8_GammaGammaParallel ==
    (/\ Rewrote /\ RwRule = "gamma_gamma"
     /\ \A x \in {RwA, RwB}, p \in 1..2 : OnThirdNode(PreAux(x, p)))
    => /\ Mutual(net, PreAux(RwA, 1), PreAux(RwB, 1))
       /\ Mutual(net, PreAux(RwA, 2), PreAux(RwB, 2))
       /\ ~net.nodes[RwA].is_active /\ ~net.nodes[RwB].is_active

C8_Witness ==
    /\ Rewrote /\ RwRule = "gamma_gamma"
    /\ \A x \in {RwA, RwB}, p \in 1..2 : OnThirdNode(PreAux(x, p))
    /\ PreAux(RwA, 1).connected_node # PreAux(RwB, 1).connected_node
    /\ Mutual(net, PreAux(RwA, 2), PreAux(RwB, 2))

(* ---------------------------- C9, C10 ---------------------------------- *)

\* the delta and the gamma node of the rewritten pair, in either order
RwDelta == IF last.pre.nodes[RwA].type = IC_NODE_DELTA THEN RwA ELSE RwB
RwGamma == IF last.pre.nodes[RwA].type = IC_NODE_GAMMA THEN RwA ELSE RwB

\* the slots the two allocations of the rule take
NewDelta == last.pre.used_nodes
NewGamma == last.pre.used_nodes + 1

\* port (node, port) now holds what was the peer c, and c answers
TakesOver(node, port, c) ==
    Linked(c) => /\ net.nodes[node].ports[port] = c
                 /\ net.nodes[c.connected_node].ports[c.connected_port]
                       = Port(node, port)

\* C9: after the delta-gamma rule on an active pair, given in either order,
\* with two slots free: the two originals are inactive, exactly two nodes are
\* appended, a delta and a gamma with their principal ports linked, and the
\* new delta's aux1 and aux2 hold the former peers of delta.aux1 and
\* gamma.aux1, the new gamma's aux1 and aux2 those of delta.aux2 and
\* gamma.aux2.
C9_DeltaGammaDuplication ==
    (Rewrote /\ RwRule = "delta_gamma" /\ ~AllocFailed(last.pre))
    => /\ ~net.nodes[RwDelta].is_active /\ ~net.nodes[RwGamma].is_active
       /\ net.used_nodes = last.pre.used_nodes + 2
       /\ net.nodes[NewDelta].type = IC_NODE_DELTA
       /\ net.nodes[NewGamma].type = IC_NODE_GAMMA
       /\ net.nodes[NewDelta].ports[0] = Port(NewGamma, 0)
       /\ net.nodes[NewGamma].ports[0] = Port(NewDelta, 0)
       /\ TakesOver(NewDelta, 1, PreAux(RwDelta, 1))
       /\ TakesOver(NewDelta, 2, PreAux(RwGamma, 1))
       /\ TakesOver(NewGamma, 1, PreAux(RwDelta, 2))
       /\ TakesOver(NewGamma, 2, PreAux(RwGamma, 2))

\* the pair was handed over gamma first, with all four peers on four ports
\* of third nodes
C9_Witness ==
    /\ Rewrote /\ RwRule = "delta_gamma" /\ ~AllocFailed(last.pre)
    /\ RwGamma = RwA
    /\ \A x \in {RwA, RwB}, p \in 1..2 : OnThirdNode(PreAux(x, p))
    /\ net.nodes[NewDelta].ports[2] = PreAux(RwGamma, 1)
    /\ net.nodes[NewGamma].ports[1] = PreAux(RwDelta, 2)

\* C10 (as claimed): a delta-gamma rewrite whose allocation fails leaves
\* gas_used as it was before the attempt.
C10_AsClaimed ==
    (Rewrote /\ RwRule = "delta_gamma" /\ AllocFailed(last.pre))
    => net.gas_used = last.pre.gas_used

\* node i of net n is the node it was in net m: type, active flag and links
SameNode(n, m, i) == n.nodes[i] = m.nodes[i]

\* C11 (as claimed): a delta-gamma rewrite that cannot allocate both
\* replacement nodes leaves used_nodes, every node's type, active flag and
\* links as they were, and the pair still linked principal to principal.
C11_AsClaimed ==
    (Rewrote /\ RwRule = "delta_gamma" /\ AllocFailed(last.pre))
    => /\ net.used_nodes = last.pre.used_nodes
       /\ \A i \in Nodes(last.pre) : SameNode(net, last.pre, i)
       /\ PrincipalLinked(net, RwA, RwB)

\* the epsilon of the pair just rewritten, and the node it met
RwEpsilon == IF last.pre.nodes[RwA].type = IC_NODE_EPSILON THEN RwA ELSE RwB
RwOther == IF last.pre.nodes[RwA].type = IC_NODE_EPSILON THEN RwB ELSE RwA

\* the rewrite just made was an erasure of a node that is not an epsilon
ErasedNonEpsilon ==
    /\ Rewrote
    /\ RwRule = "epsilon"
    /\ last.pre.nodes[RwOther].type # IC_NODE_EPSILON

\* C12: a rewrite on an active pair (epsilon, X), X not an epsilon, makes the
\* epsilon inactive and nothing else: X stays active with every port as it
\* was, every other node keeps its links, and no node is allocated.
C12_ErasureRetiresOnlyEpsilon ==
    ErasedNonEpsilon
    => /\ ~net.nodes[RwEpsilon].is_active
       /\ net.nodes[RwOther].is_active
       /\ net.nodes[RwOther].ports = last.pre.nodes[RwOther].ports
       /\ \A i \in Nodes(last.pre) \ {RwEpsilon} : SameNode(net, last.pre, i)
       /\ net.nodes[RwEpsilon].ports = last.pre.nodes[RwEpsilon].ports
       /\ net.used_nodes = last.pre.used_nodes

\* test_epsilon_reduction with X's auxiliaries wired to further nodes
C12_Witness ==
    /\ ErasedNonEpsilon
    /\ OnThirdNode(PreAux(RwOther, 1))
    /\ OnThirdNode(PreAux(RwOther, 2))
    /\ ~net.nodes[RwEpsilon].is_active
    /\ net.nodes[RwOther].is_active

\* the net has just answered an ic_net_new_node call
Allocated == last.op = "new_node"

\* C13: on a net of capacity C the first C ic_net_new_node calls return
\* 0, 1, .., C-1 in order, each adding the node; every further call returns
\* -1 and changes nothing, ic_net_get_used_nodes then being C; used_nodes
\* never exceeds the capacity.
C13_AllocatorBound ==
    /\ net.used_nodes <= net.max_nodes
    /\ Allocated
       => IF calls <= net.max_nodes
          THEN /\ ret = calls - 1
               /\ ic_net_get_used_nodes(net) = calls
               /\ net.nodes[ret] = [type |-> last.args[1],
                                    ports |-> [p \in 0..2 |-> Unconnected],
                                    is_active |-> TRUE]
               /\ \A i \in Nodes(last.pre) : SameNode(net, last.pre, i)
          ELSE /\ ret = -1
               /\ net = last.pre
               /\ ic_net_get_used_nodes(net) = net.max_nodes

\* test_node_allocation: the capacity is used up, node by node, and the call
\* after the last successful one has been refused
C13_Witness ==
    /\ Allocated
    /\ net.max_nodes >= 3
    /\ calls = net.max_nodes + 1
    /\ ret = -1
    /\ ic_net_get_used_nodes(net) = net.max_nodes

\* the net has just answered an ic_net_connect call with valid arguments
Connected == last.op = "connect"

\* the arguments of that call, and the two ports they name
CnA == last.args[1]
CnPa == last.args[2]
CnB == last.args[3]
CnPb == last.args[4]
EndA == Port(CnA, CnPa)
EndB == Port(CnB, CnPb)

\* what the port addressed by c holds in net n
At(n, c) == n.nodes[c.connected_node].ports[c.connected_port]

\* C14: after ic_net_connect(a, pa, b, pb) with valid arguments port pa of a
\* holds (b, pb) and port pb of b holds (a, pa), whatever the two ports and
\* the rest of the net were linked to before.
C14_ConnectSymmetric ==
    Connected => At(net, EndA) = EndB /\ At(net, EndB) = EndA

\* the two endpoints were already linked to each other, and the call came
\* out symmetric
C14_Witness ==
    /\ Connected
    /\ CnA # CnB
    /\ At(last.pre, EndA) = EndB
    /\ At(last.pre, EndB) = EndA
    /\ At(net, EndA) = EndB
    /\ At(net, EndB) = EndA

\* both endpoints are ports of one node, one of them linked elsewhere before
C14_WitnessSameNode ==
    /\ Connected
    /\ CnA = CnB
    /\ CnPa # CnPb
    /\ Linked(At(last.pre, EndA))
    /\ At(last.pre, EndA).connected_node # CnA
    /\ At(net, EndA) = EndB
    /\ At(net, EndB) = EndA

\* what the two endpoints were linked to before the call
FormerA == At(last.pre, EndA)
FormerB == At(last.pre, EndB)

\* c was the peer of an endpoint and is not itself one of the two endpoints
DisplacedPeer(c) == Linked(c) /\ c \notin {EndA, EndB}

\* C15: a valid ic_net_connect leaves the former peer of each endpoint
\* unlinked, unless that peer is itself one of the two endpoints; no port
\* other than the endpoints and their former peers is modified, and no
\* node's type or active flag.
C15_ReconnectSevers ==
    Connected
    => /\ DisplacedPeer(FormerA) => At(net, FormerA) = Unconnected
       /\ DisplacedPeer(FormerB) => At(net, FormerB) = Unconnected
       /\ \A i \in Nodes(last.pre), p \in 0..2 :
              Port(i, p) \notin {EndA, EndB, FormerA, FormerB}
              => net.nodes[i].ports[p] = last.pre.nodes[i].ports[p]
       /\ \A i \in Nodes(last.pre) :
              /\ net.nodes[i].type = last.pre.nodes[i].type
              /\ net.nodes[i].is_active = last.pre.nodes[i].is_active
       /\ net.used_nodes = last.pre.used_nodes

\* test_connections, reconnecting: the endpoints are on two nodes, both had
\* peers on a third, both peers are unlinked now and the endpoints hold the
\* new link
C15_Witness ==
    /\ Connected
    /\ CnA # CnB
    /\ DisplacedPeer(FormerA)
    /\ DisplacedPeer(FormerB)
    /\ FormerA.connected_node \notin {CnA, CnB}
    /\ FormerB.connected_node \notin {CnA, CnB}
    /\ At(net, FormerA) = Unconnected
    /\ At(net, FormerB) = Unconnected
    /\ At(net, EndA) = EndB

\* the net has just answered an ic_net_connect call with a node index
\* outside [0, used_nodes) or a port outside {0, 1, 2}
Rejected == last.op = "connect_invalid"

\* C16: ic_net_connect with a node index outside [0, used_nodes) or a port
\* outside {0, 1, 2} changes nothing: no port, active flag, counter or
\* redex-queue entry.
C16_InvalidConnectNoOp ==
    Rejected
    => /\ net.nodes = last.pre.nodes
       /\ net.used_nodes = last.pre.used_nodes
       /\ net.gas_used = last.pre.gas_used
       /\ net.redex_queue = last.pre.redex_queue
       /\ net = last.pre

\* a net with links and a queued redex is handed the index of the first
\* unallocated slot, and is as it was
C16_Witness ==
    /\ Rejected
    /\ last.args[3] = net.used_nodes
    /\ net.used_nodes < net.max_nodes
    /\ Len(net.redex_queue) > 0
    /\ \E i \in Nodes(net), p \in 1..2 : Linked(net.nodes[i].ports[p])
    /\ net = last.pre

\* port record c is unlinked, or names a port of a node in use
PortInRange(n, c) ==
    \/ c = Unconnected
    \/ /\ c.connected_node \in Nodes(n)
       /\ c.connected_port \in 0..2

\* C17: every port of every node in [0, used_nodes) is either unlinked,
\* both fields -1, or holds a peer port in {0, 1, 2} on a peer node in
\* [0, used_nodes); between API calls and between iterations of the
\* reduction loop alike.
C17_PortRange ==
    \A i \in Nodes(net), p \in 0..2 : PortInRange(net, net.nodes[i].ports[p])

\* between calls, on a net where a reconnect has just unlinked a displaced
\* peer while other ports stay linked
C17_Witness ==
    /\ pc = "idle"
    /\ Connected
    /\ net.used_nodes >= 3
    /\ DisplacedPeer(FormerA)
    /\ At(net, FormerA) = Unconnected
    /\ \E i \in Nodes(net) \ {CnA, CnB}, p \in 0..2 :
           Linked(net.nodes[i].ports[p])
    /\ C17_PortRange

\* the ic_net_reduce call that has just returned set factor_found
SetFound == Returned /\ net.factor_found /\ ~entry.factor_found

\* C18 (as claimed): ic_net_reduce sets factor_found only on a net with
\* exactly one active delta and exactly one active gamma whose indices, each
\* plus one, multiply to input_number; so factor_a * factor_b = input_number
\* after any reduce that sets it.
C18_AsClaimed ==
    SetFound
    => /\ CountActive(net, IC_NODE_DELTA, 0) = 1
       /\ CountActive(net, IC_NODE_GAMMA, 0) = 1
       /\ FactorOf(net, IC_NODE_DELTA, net.used_nodes - 1)
              * FactorOf(net, IC_NODE_GAMMA, net.used_nodes - 1)
          = net.input_number
       /\ net.factor_a * net.factor_b = net.input_number

\* ic_net_has_valid_factor has just answered
Queried == last.op = "has_valid_factor"

\* C19: ic_net_has_valid_factor(net, N) answers true exactly when
\* factor_found is set and factor_a * factor_b = N, N being the argument,
\* and leaves the net as it was; with factor_b = 3 and N = 6 the answer is
\* true for factor_a = 2 and false for factor_a = 4.
C19_HasValidFactor ==
    /\ Queried
       => /\ (ret = 1) <=> (net.factor_found
                            /\ net.factor_a * net.factor_b = last.args[1])
          /\ ret \in {0, 1}
          /\ net = last.pre
    /\ (net.factor_found /\ net.factor_b = 3)
       => /\ ic_net_has_valid_factor([net EXCEPT !.factor_a = 2], 6)
          /\ ~ic_net_has_valid_factor([net EXCEPT !.factor_a = 4], 6)

\* test_factorization's second query: factor_a has just been rewritten to
\* 4, factor_b is 3, and the answer for 6 is false
C19_Witness ==
    /\ Queried
    /\ last.prev = "set_factor_a"
    /\ last.args[1] = 6
    /\ net.input_number = 6
    /\ net.factor_found
    /\ net.factor_a = 4
    /\ net.factor_b = 3
    /\ ret = 0

\* ic_search_factor has just returned
SearchReturned == pc = "idle" /\ last.op = "search_return"

\* the arguments of that call
SearchN == last.args[1]
SearchMaxNodes == last.args[2]
SearchGasLimit == last.args[3]

\* the driver's net as it was when the call that has returned handed it to
\* ic_net_free
SearchFreed == entry

\* a fresh net, as main makes it to reconstruct the solution, built from
\* enumeration index i and reduced
Reconstructed(i) ==
    LET fresh == [ic_net_create(SearchMaxNodes, SearchGasLimit)
                     EXCEPT !.input_number = SearchN]
        b == ic_enum_build_net(state.max_nodes, i, fresh)
    IN [built |-> b.result = 0,
        net |-> IF b.result = 0 THEN ic_net_reduce(b.net) ELSE b.net]

\* C20: when ic_search_factor returns an index i >= 0, the net built from
\* index i and reduced under the given gas_limit has factor_found set and
\* factor_a * factor_b = N; any other return value is -1.
C20_DriverSound ==
    SearchReturned
    => IF ret >= 0
       THEN /\ Reconstructed(ret).built
            /\ Reconstructed(ret).net.factor_found
            /\ Reconstructed(ret).net.factor_a
                  * Reconstructed(ret).net.factor_b = SearchN
            /\ SearchFreed.factor_found
            /\ SearchFreed.factor_a * SearchFreed.factor_b = SearchN
       ELSE ret = -1

\* a search for the factors of 6 came back with an index, after skipping
\* indices whose nets did not build or did not pass
C20_Witness ==
    /\ SearchReturned
    /\ ret > 0
    /\ SearchN = 6
    /\ Reconstructed(ret).net.factor_found
    /\ Reconstructed(ret).net.factor_a * Reconstructed(ret).net.factor_b = 6

\* C21: ic_search_factor never returns index i as the solution when
\* ic_net_reduce on the net of index i returned 1 (GasExhausted): a returned
\* index is one whose reduction finished.
C21_AsClaimed ==
    (SearchReturned /\ ret >= 0)
    => /\ ReduceResult(SearchFreed) = 0
       /\ ReduceResult(Reconstructed(ret).net) = 0

\* a call of ic_search_factor is between two iterations of its loop
Searching == pc = "search"

\* C22: every search is bounded by an index ceiling: a call of
\* ic_search_factor that has not found a factorization gives up and returns
\* -1 before it has advanced the enumeration index by max_attempts, the one
\* limit in the code of the driver and of ic_enum_next.
C22_AsClaimed ==
    Searching => state.current_index - run.start < max_attempts

\* the invocations of the progress callback made by the call so far
Invoked == run.invoked

\* all invocations but the last n carried found_solution = false
AllFalseButLast(n) ==
    \A k \in 1..(Len(Invoked) - n) : Invoked[k][2] = FALSE

\* C23: in a run of ic_search_factor with a callback registered, a returned
\* solution is reported by exactly one invocation with found = true, which
\* carries the returned index and is the last invocation of the run; every
\* other invocation, and every invocation of a run that is still searching
\* or returned -1, has found = false.  Without a callback nothing is invoked.
C23_CallbackProtocol ==
    /\ (SearchReturned /\ ret >= 0 /\ state.progress_cb)
       => /\ Len(Invoked) >= 1
          /\ Invoked[Len(Invoked)] = <<ret, TRUE>>
          /\ AllFalseButLast(1)
    /\ (Searching \/ (SearchReturned /\ ret < 0)) => AllFalseButLast(0)
    /\ ~state.progress_cb => Invoked = << >>

\* a search that reported progress with found = false, went on and returned
\* a solution, reported by its last invocation
C23_Witness ==
    /\ SearchReturned
    /\ ret >= 0
    /\ state.progress_cb
    /\ Len(Invoked) >= 2
    /\ Invoked[1][2] = FALSE
    /\ Invoked[Len(Invoked)] = <<ret, TRUE>>

\* ic_enum_build_net has just returned
EnumBuilt == pc = "idle" /\ last.op = "enum_build"

\* the index it was called with
EnumIndex == last.args[1]

\* it returned Ok
BuiltOk == EnumBuilt /\ ret = 0

\* C24: for every index in 0..1000, with net capacity and enumerator
\* max_nodes at least 13, ic_enum_build_net returns 0: with that capacity no
\* index asks for more nodes than the net holds, and nothing else fails.
C24_AsClaimed ==
    (EnumBuilt /\ state.max_nodes >= 13 /\ net.max_nodes >= 13
       /\ EnumIndex \in 0..1000)
    => ret = 0

\* C25: whenever ic_enum_build_net returns 0 the net holds an active pair:
\* two active nodes whose principal ports are linked to each other.
C25_AsClaimed == BuiltOk => HasActivePair(net)

\* port p of node a of net n is linked to a port of a node of the net that
\* links back to it
LinkedBothWays(n, a, p) ==
    LET b == n.nodes[a].ports[p].connected_node
        q == n.nodes[a].ports[p].connected_port
    IN /\ b \in Nodes(n)
       /\ q \in 0..2
       /\ n.nodes[b].ports[q] = Port(a, p)

\* C26: whenever ic_enum_build_net returns 0 no port is dangling: every port
\* of every node below used_nodes is linked, to a port 0..2 of a node below
\* used_nodes whose back-link points to it.
C26_NoDanglingPort ==
    BuiltOk => \A a \in Nodes(net), p \in 0..2 : LinkedBothWays(net, a, p)

\* test_enumeration's case: enumerator max_nodes 5, an index in 0..9, a
\* successful build over the net an earlier build left
C26_Witness ==
    /\ BuiltOk
    /\ state.max_nodes = 5
    /\ EnumIndex \in 0..9
    /\ net.used_nodes = 4
    /\ last.pre.used_nodes > 0

\* C27: with capacity and enumerator max_nodes at least 13, a successful
\* ic_enum_build_net produces exactly 3 + (index mod 10) nodes, whatever
\* max_nodes is.
C27_AsClaimed ==
    (BuiltOk /\ state.max_nodes >= 13 /\ net.max_nodes >= 13)
    => net.used_nodes = 3 + (EnumIndex % 10)

\* what two nets are compared on: used_nodes, and type, active flag and
\* links of the nodes below it, gas_used and factor_found
Observed(n) ==
    [used_nodes |-> n.used_nodes,
     nodes |-> [i \in Nodes(n) |-> n.nodes[i]],
     gas_used |-> n.gas_used,
     factor_found |-> n.factor_found]

\* the same call on a net fresh from ic_net_create
OnFreshNet ==
    ic_enum_build_net(state.max_nodes, EnumIndex,
                      ic_net_create(net.max_nodes, net.gas_limit))

\* C28: ic_enum_build_net is a function of index and max_nodes alone: called
\* on a net with any prior contents it returns what it returns on a fresh
\* net of the same capacity, and leaves the same used_nodes, node types,
\* active flags, links, gas_used and factor_found; so any two calls agree.
C28_BuildDeterministic ==
    EnumBuilt => /\ ret = OnFreshNet.result
                 /\ Observed(net) = Observed(OnFreshNet.net)

\* a build over a net that held other nodes and links, retired nodes, used
\* gas and a pending redex
C28_Witness ==
    /\ BuiltOk
    /\ last.pre.used_nodes > net.used_nodes
    /\ last.pre.gas_used > 0
    /\ Len(last.pre.redex_queue) > 0
    /\ \E i \in Nodes(net) : ~last.pre.nodes[i].is_active
    /\ \E i \in Nodes(net) : last.pre.nodes[i].ports # net.nodes[i].ports

\* C29: ic_enum_build_net resets the net before it constructs: on every
\* return, 0 or -1, gas_used = 0 and factor_found = false, used_nodes counts
\* only the nodes this call allocated (the nodes the index asks for, or as
\* many as the net holds), and every node below used_nodes is active.
C29_BuildResets ==
    EnumBuilt
    => /\ net.gas_used = 0
       /\ ~net.factor_found
       /\ net.used_nodes =
             (IF NumNodes(state.max_nodes, EnumIndex) <= net.max_nodes
              THEN NumNodes(state.max_nodes, EnumIndex)
              ELSE net.max_nodes)
       /\ \A i \in Nodes(net) : net.nodes[i].is_active

\* a failed build over a net that a reduction left with gas used, a factor
\* found and retired nodes
C29_Witness ==
    /\ EnumBuilt
    /\ ret = -1
    /\ last.pre.gas_used > 0
    /\ last.pre.factor_found
    /\ \E i \in 0..(last.pre.used_nodes - 1) : ~last.pre.nodes[i].is_active
    /\ net.used_nodes > 0

\* a successful build over such a net
C29_WitnessOk ==
    /\ BuiltOk
    /\ last.pre.gas_used > 0
    /\ last.pre.factor_found
    /\ last.pre.used_nodes # net.used_nodes

\* the net n with nothing in its redex queue and no gas used
Clean(n) == [n EXCEPT !.redex_queue = << >>, !.gas_used = 0]

\* the terminal state a reduction is compared on: the node vector below
\* used_nodes and gas_used
Terminal(n) ==
    [used_nodes |-> n.used_nodes,
     nodes |-> [i \in Nodes(n) |-> n.nodes[i]],
     gas_used |-> n.gas_used]

\* C30: the outcome of ic_net_reduce depends on the graph, gas_limit and
\* input_number alone: whatever the redex queue held and whatever gas_used
\* was at entry, the terminal node vector, gas_used and the return value are
\* those of the reduction of the same net entered with an empty queue and
\* gas_used = 0; so any two such nets end alike.
C30_ReduceDeterministic ==
    Returned
    => /\ Terminal(net) = Terminal(ic_net_reduce(Clean(entry)))
       /\ ret = ReduceResult(ic_net_reduce(Clean(entry)))

\* a reduction that rewrote, entered with redexes pending in the queue and
\* gas used by the call before
C30_Witness ==
    /\ Returned
    /\ Len(entry.redex_queue) > 0
    /\ entry.gas_used > 0
    /\ net.gas_used > 0
    /\ net.nodes # entry.nodes

\* one entered with a queue entry that no longer names an active pair
C30_WitnessStale ==
    /\ Returned
    /\ Len(entry.redex_queue) > 0
    /\ ~ic_net_get_next_redex(entry)
    /\ net.gas_used > 0

\* ic_enum_next has just returned
EnumNextReturned == pc = "idle" /\ last.op = "enum_next"

\* current_index when it was entered
EnumNextEntry == last.args[1]

\* C31: a call of ic_enum_next entered with current_index = c that returns 1
\* leaves the net that ic_enum_build_net makes at index c, built
\* successfully, and current_index = c + 1.
C31_AsClaimed ==
    (EnumNextReturned /\ ret = 1)
    => /\ ic_enum_build_net(state.max_nodes, EnumNextEntry, last.pre).result = 0
       /\ net = ic_enum_build_net(state.max_nodes, EnumNextEntry, last.pre).net
       /\ state.current_index = EnumNextEntry + 1

\* a queue entry of net n that is no active pair of n
StaleEntry(n, e) == ~ActivePair(n, e[1], e[2])

\* C32: every rewrite ic_net_reduce performs is applied to a pair that, when
\* it was dequeued, was an active pair: two distinct active nodes whose
\* principal ports point at each other; a stale entry never gets rewritten.
C32_DequeueRevalidates ==
    Rewrote => /\ ActivePair(last.pre, RwA, RwB)
               /\ ~StaleEntry(last.pre, Head(last.pre.redex_queue))

\* a rewrite of a valid pair made while a stale entry waited in the queue
C32_Witness ==
    /\ Rewrote
    /\ ActivePair(last.pre, RwA, RwB)
    /\ \E i \in 2..Len(last.pre.redex_queue) :
          StaleEntry(last.pre, last.pre.redex_queue[i])

\* a stale head has just been dropped by the validity check
C32_WitnessDropped ==
    /\ last.op \in {"rescan", "reduce_break"}
    /\ Len(last.pre.redex_queue) > 0
    /\ StaleEntry(last.pre, Head(last.pre.redex_queue))

\* the active pairs (a, b), a < b, the scan of ic_net_reduce finds in n
ScanPairs(n) ==
    {e \in Nodes(n) \X Nodes(n) : e[1] < e[2] /\ ActivePair(n, e[1], e[2])}

\* C33: the redex queue never holds more than MAX_REDEX_QUEUE entries, an
\* add on a full queue changes nothing, and ic_net_reduce does not return 0
\* while an active pair remains, adds dropped on a full queue or not.
C33_QueueBoundedAndComplete ==
    /\ Len(net.redex_queue) <= MAX_REDEX_QUEUE
    /\ Len(net.redex_queue) = MAX_REDEX_QUEUE
       => \A a \in Nodes(net), b \in Nodes(net) :
             ic_net_add_redex(net, a, b) = net
    /\ (Returned /\ ret = 0) => ScanPairs(net) = {}

\* ic_net_reduce returned 0 on a net whose first scan found more active
\* pairs than the queue holds
C33_Witness ==
    /\ Returned /\ ret = 0
    /\ Cardinality(ScanPairs(entry)) > MAX_REDEX_QUEUE
    /\ ScanPairs(net) = {}

\* a full queue in front of an active pair that is not in it
C33_WitnessFull ==
    /\ pc = "loop"
    /\ Len(net.redex_queue) = MAX_REDEX_QUEUE
    /\ \E e \in ScanPairs(net) :
          \A i \in 1..Len(net.redex_queue) : net.redex_queue[i] # e

\* the rewrite just made was applied to two epsilon nodes
ErasedEpsilonPair ==
    /\ Rewrote
    /\ last.pre.nodes[RwA].type = IC_NODE_EPSILON
    /\ last.pre.nodes[RwB].type = IC_NODE_EPSILON

\* node b is left over from the epsilon-epsilon rewrite just made
SurvivedNow(b) == ErasedEpsilonPair /\ RwB = b

\* node b is one half of an active pair
InActivePair(b) ==
    /\ b \in Nodes(net)
    /\ \E c \in Nodes(net) : ActivePair(net, b, c)

\* the node indices of the prepared nets
PreparedSlots ==
    0..(2 * (MAX_REDEX_QUEUE + 1) - 1)
    \cup 0..(NumExtras + 3) \cup 0..(MaxFree + 1) \cup 0..(2 * MaxPairs - 1)

\* what the rewrite of an epsilon-epsilon pair does in its own iteration
C34_StepEffect ==
    ErasedEpsilonPair
    => /\ ~net.nodes[RwA].is_active
       /\ net.nodes[RwB].is_active
       /\ net.nodes[RwB].ports = last.pre.nodes[RwB].ports
       /\ \A i \in Nodes(last.pre) \ {RwA} : SameNode(net, last.pre, i)
       /\ net.nodes[RwA].ports = last.pre.nodes[RwA].ports
       /\ net.nodes[RwA].type = IC_NODE_EPSILON
       /\ net.used_nodes = last.pre.used_nodes
       /\ net.gas_used = last.pre.gas_used + 1

\* C34: the rewrite of an active pair of two epsilon nodes retires exactly
\* one of them, uses one unit of gas and leaves the other active with its
\* links as they were; from then on the survivor is never again one half of
\* an active pair.
C34_EpsilonPair ==
    /\ []C34_StepEffect
    /\ \A b \in PreparedSlots : [](SurvivedNow(b) => []~InActivePair(b))

\* an epsilon-epsilon rewrite made while the survivor of an earlier one is
\* still in the net, principal port on its retired partner
C34_Witness ==
    /\ ErasedEpsilonPair
    /\ ~net.nodes[RwA].is_active /\ net.nodes[RwB].is_active
    /\ \E a \in Nodes(net) \ {RwA, RwB}, b \in Nodes(net) \ {RwA, RwB} :
          /\ net.nodes[b].is_active /\ ~net.nodes[a].is_active
          /\ net.nodes[a].type = IC_NODE_EPSILON
          /\ net.nodes[b].type = IC_NODE_EPSILON
          /\ PrincipalLinked(net, a, b)

\* the step just taken belongs to a call of ic_net_reduce
ReduceStepped ==
    last.op \in {"reduce_begin", "rewrite", "rescan", "reduce_break",
                 "reduce_gas_out"}

\* C35: no step of ic_net_reduce makes a retired node active again, changes
\* the type of a node that exists, or lowers used_nodes; nodes are added only
\* at the indices from the old used_nodes upwards.
C35_RetirementPermanent ==
    ReduceStepped
    => /\ net.used_nodes >= last.pre.used_nodes
       /\ \A i \in Nodes(last.pre) :
             /\ net.nodes[i].type = last.pre.nodes[i].type
             /\ ~last.pre.nodes[i].is_active => ~net.nodes[i].is_active

\* a rewrite that allocated nodes in a net that already held a retired node
C35_Witness ==
    /\ Rewrote
    /\ net.used_nodes > last.pre.used_nodes
    /\ \E i \in Nodes(last.pre) :
          ~last.pre.nodes[i].is_active /\ ~net.nodes[i].is_active

\* the iteration just made handed a delta-gamma pair to ic_apply_rewrite
DeltaGammaAttempted == Rewrote /\ RwRule = "delta_gamma"

\* an active pair of a delta and a gamma node
HasDeltaGammaPair(n) ==
    \E a \in Nodes(n), b \in Nodes(n) :
       /\ ActivePair(n, a, b)
       /\ n.nodes[a].type = IC_NODE_DELTA
       /\ n.nodes[b].type = IC_NODE_GAMMA

\* C36: once ic_net_reduce has handed a delta-gamma pair to the rewrite,
\* completed or aborted for lack of slots, an active delta-gamma pair is in
\* the net after it, and every return from then on is a return of 1 with
\* gas_used = gas_limit: a call that returns 0 attempted no delta-gamma
\* rewrite.
C36_DeltaGammaNeverFinishes ==
    [](DeltaGammaAttempted
       => /\ HasDeltaGammaPair(net)
          /\ [](Returned => /\ ret = 1
                             /\ net.gas_used = net.gas_limit
                             /\ HasDeltaGammaPair(net)))

\* a call that completed a delta-gamma rewrite (only that rule allocates)
\* has returned
C36_Witness ==
    /\ Returned /\ ret = 1
    /\ net.used_nodes > entry.used_nodes
    /\ net.gas_used = net.gas_limit
    /\ HasDeltaGammaPair(net)

\* a call whose delta-gamma rewrites were all aborted has returned
C36_WitnessAborted ==
    /\ Returned /\ ret = 1
    /\ HasDeltaGammaPair(entry)
    /\ AllocFailed(entry)
    /\ net.gas_limit > 0
    /\ net.gas_used = net.gas_limit

\* ic_net_reduce has been entered again right after a call that ended by
\* the break of its loop, with the return value 0 of that call still in ret;
\* entry is the net that call left
ReenteredAfterFinished ==
    /\ pc = "loop"
    /\ last.op = "reduce_begin"
    /\ last.prev = "reduce_break"
    /\ ret = 0

\* C37: a call of ic_net_reduce that immediately follows a call that
\* returned 0 returns 0 as well, with gas_used = 0 at its exit and with
\* used_nodes and every node (type, active flag, links) as it found them.
C37_ReduceIdempotent ==
    [][ReenteredAfterFinished
       => /\ net.nodes = entry.nodes
          /\ net.used_nodes = entry.used_nodes
          /\ pc' = "idle"
          /\ ret' = 0
          /\ net'.gas_used = 0
          /\ net'.used_nodes = entry.used_nodes
          /\ net'.nodes = entry.nodes]_vars

\* the second call has returned: nothing was rewritten, on a net in which
\* the call before it (gas_used >= 1, below the limit: return value 0) had
\* retired nodes
C37_Witness ==
    /\ Returned /\ ret = 0
    /\ last.prev = "reduce_begin"
    /\ entry.gas_used >= 1
    /\ ReduceResult(entry) = 0
    /\ net.gas_used = 0
    /\ net.nodes = entry.nodes
    /\ \E i \in Nodes(net) : ~net.nodes[i].is_active

\* the step just taken was made by ic_net_new_node, ic_net_connect,
\* ic_net_reduce, ic_enum_build_net or ic_enum_next
CoreStepped ==
    last.op \in {"new_node", "connect", "connect_invalid", "build_net",
                 "reduce_begin", "rewrite", "rescan", "reduce_break",
                 "reduce_gas_out", "enum_build", "enum_reduce", "enum_next"}

\* the step just taken was an iteration of the loop of ic_search_factor
\* (ic_enum_next, ic_net_reduce, ic_net_has_valid_factor)
DriverIterated ==
    /\ last.op \in {"search_iteration", "search_return"}
    /\ last.prev \in {"search_begin", "search_iteration"}

\* C38: ic_net_new_node, ic_net_connect, ic_net_reduce, ic_enum_build_net
\* and ic_enum_next leave input_number as it was, and after every iteration
\* of the driver's loop the net still carries the N the driver stored before
\* the loop.
C38_InputNumberKept ==
    /\ CoreStepped => net.input_number = last.pre.input_number
    /\ DriverIterated
       => IF Searching
          THEN entry.input_number = SearchN /\ net.input_number = SearchN
          ELSE SearchFreed.input_number = SearchN

\* a later iteration of a search for N = 2 has built and reduced a net
C38_Witness ==
    /\ DriverIterated
    /\ Searching
    /\ last.prev = "search_iteration"
    /\ SearchN = 2
    /\ net.input_number = 2
    /\ net.used_nodes > 0
    /\ net.gas_used >= 1

\* index i builds and its reduced net has a valid factor for the N of the
\* search
Passes(i) ==
    /\ Reconstructed(i).built
    /\ ic_net_has_valid_factor(Reconstructed(i).net, SearchN)

\* the call of ic_search_factor that has just returned found an index
SearchFound ==
    /\ SearchReturned
    /\ last.prev \in {"search_begin", "search_iteration"}
    /\ ret >= 0

\* the returned index is the first one from the start of the call that passes
C39_Smallest ==
    SearchFound
    => /\ ret >= run.start
       /\ Passes(ret)
       /\ \A i \in run.start..(ret - 1) : ~Passes(i)

\* C39: the index ic_search_factor returns is the smallest index, from the
\* current_index the call started with, that builds and whose reduced net has
\* a valid factor for N; every iteration of the loop moves current_index
\* forward, so no index is tried twice or out of order.
C39_FirstMatchWins ==
    /\ []C39_Smallest
    /\ [][Searching => state'.current_index > state.current_index]_vars

\* a search came back with an index after it had built and reduced the net
\* of a smaller index that did not pass
C39_Witness ==
    /\ SearchFound
    /\ Passes(ret)
    /\ \E i \in run.start..(ret - 1) : Reconstructed(i).built /\ ~Passes(i)

\* a search that did not start at index 0 came back with an index
C39_WitnessLaterStart ==
    /\ SearchFound
    /\ run.start > 0
    /\ Passes(ret)

====
